---- MODULE Spec2Model ----
(***************************************************************************)
(* miniseed2dmc: resumable transfer of Mini-SEED files.                    *)
(*                                                                         *)
(* The model follows src/src/miniseed2dmc.c: the input file list           *)
(* (FileLink), the state file written by savestate()/printfilelist() and   *)
(* read back by recoverstate(), and the scan loop of main().  The record   *)
(* reader (ms_readmsr of libmseed) and the transport (dl_connect/dl_write  *)
(* of libdali) are the environment.                                        *)
(***************************************************************************)
EXTENDS Integers, Sequences, FiniteSets, TLC

(***************************************************************************)
(* Bounds of the model.                                                    *)
(***************************************************************************)
\* Number of program executions in one behaviour (first run + restarts).
MaxRuns == 2
\* Number of transport failures (dl_connect or dl_write) in one behaviour.
MaxFails == 2
\* Number of times the process is killed in one behaviour.
MaxKills == 1

\* How many times a write to the temporary state file fails
MaxWriteFails == 1
MaxTotal == 5
\* Bytes of one block of a file (one record, or one stretch of non-data).
RecLen == 2

(***************************************************************************)
(* Characters.  A file name is a sequence of characters; the state file    *)
(* is a sequence of characters.                                            *)
(***************************************************************************)
TAB == "\t"
NL == "\n"
SP == " "
Digits == <<"0", "1", "2", "3", "4", "5", "6", "7", "8", "9">>
DigitSet == {Digits[i] : i \in 1..10}
\* isspace() of the characters that occur
WhiteSpace == {SP, TAB, NL}

\* Value of one decimal digit character
DigitVal(c) == (CHOOSE i \in 1..10 : Digits[i] = c) - 1

\* printf %lld / %llu of a non-negative number: its decimal digits
RECURSIVE Dec(_)
Dec(n) == IF n < 10 THEN <<Digits[n + 1]>>
          ELSE Dec(n \div 10) \o <<Digits[(n % 10) + 1]>>

\* Value of a non-empty run of decimal digits (scanf %lld / %llu)
RECURSIVE Val(_)
Val(ds) == IF Len(ds) = 0 THEN 0
           ELSE 10 * Val(SubSeq(ds, 1, Len(ds) - 1)) + DigitVal(ds[Len(ds)])

\* First index >= i of s holding a character that is not white space
RECURSIVE SkipWs(_, _)
SkipWs(s, i) == IF i > Len(s) THEN i
                ELSE IF s[i] \in WhiteSpace THEN SkipWs(s, i + 1) ELSE i

\* First index >= i of s holding white space (end of a %s word)
RECURSIVE WordEnd(_, _)
WordEnd(s, i) == IF i > Len(s) THEN i
                 ELSE IF s[i] \in WhiteSpace THEN i ELSE WordEnd(s, i + 1)

\* First index >= i of s holding no digit (end of a number)
RECURSIVE DigitsEnd(_, _)
DigitsEnd(s, i) == IF i > Len(s) THEN i
                   ELSE IF s[i] \in DigitSet THEN DigitsEnd(s, i + 1) ELSE i

\* One %lld / %llu conversion at index i: skip white space, then digits.
\* ok is FALSE when no digit is there (matching failure or end of input).
ScanInt(s, i) ==
  LET j == SkipWs(s, i)
      k == DigitsEnd(s, j)
  IN  [ok |-> k > j, val |-> IF k > j THEN Val(SubSeq(s, j, k - 1)) ELSE 0, next |-> k]

(***************************************************************************)
(* sscanf (line, "%s %lld %lld %llu %llu\n", filename, &offset, &size,     *)
(*         &bytecount, &recordcount)                                       *)
(* fields is the number of conversions done, -1 (EOF) when the input ends  *)
(* before the first one.                                                   *)
(***************************************************************************)
sscanf(line) ==
  LET i1 == SkipWs(line, 1)
      e1 == WordEnd(line, i1)
      n1 == ScanInt(line, e1)
      n2 == ScanInt(line, n1.next)
      n3 == ScanInt(line, n2.next)
      n4 == ScanInt(line, n3.next)
      cnt == IF i1 > Len(line) THEN -1
             ELSE IF ~n1.ok THEN 1
             ELSE IF ~n2.ok THEN 2
             ELSE IF ~n3.ok THEN 3
             ELSE IF ~n4.ok THEN 4
             ELSE 5
  IN  [fields |-> cnt,
       filename |-> IF i1 > Len(line) THEN <<>> ELSE SubSeq(line, i1, e1 - 1),
       offset |-> n1.val, size |-> n2.val,
       bytecount |-> n3.val, recordcount |-> n4.val]

(***************************************************************************)
(* A FileLink of the input file list.                                      *)
(***************************************************************************)
FileLink(name, size) ==
  [name |-> name, offset |-> 0, size |-> size, bytecount |-> 0, recordcount |-> 0]

\* One line of printfilelist(): "%s\t%lld\t%lld\t%llu\t%llu\n"
FileLine(f) ==
  f.name \o <<TAB>> \o Dec(f.offset) \o <<TAB>> \o Dec(f.size) \o <<TAB>>
         \o Dec(f.bytecount) \o <<TAB>> \o Dec(f.recordcount) \o <<NL>>

\* printfilelist(): the lines of all entries of the list, in list order
RECURSIVE printfilelist(_)
printfilelist(flist) ==
  IF Len(flist) = 0 THEN <<>>
  ELSE FileLine(Head(flist)) \o printfilelist(Tail(flist))

\* fgets() until end of file: the text cut into lines, each with its newline
RECURSIVE fgets(_)
fgets(text) ==
  IF Len(text) = 0 THEN <<>>
  ELSE LET e == CHOOSE k \in 1..Len(text) :
                  /\ (text[k] = NL \/ k = Len(text))
                  /\ \A j \in 1..(k - 1) : text[j] # NL
       IN  <<SubSeq(text, 1, e)>> \o fgets(SubSeq(text, e + 1, Len(text)))

(***************************************************************************)
(* recoverstate(): the matching loop for one parsed line.  Entries whose   *)
(* offset is already > 0 are passed over; the first other entry with the   *)
(* same name takes the line's offset and counts.  0 when none matches.     *)
(***************************************************************************)
FindEntry(flist, filename) ==
  LET cand == {i \in 1..Len(flist) : flist[i].offset = 0 /\ flist[i].name = filename}
  IN  IF cand = {} THEN 0 ELSE CHOOSE i \in cand : \A j \in cand : i <= j

\* The entry takes the size of the state file's line as well
UpdateEntrySized(f, r) ==
  [f EXCEPT !.offset = r.offset, !.size = r.size, !.bytecount = r.bytecount,
            !.recordcount = r.recordcount]

UpdateEntry(f, r) ==
  [f EXCEPT !.offset = r.offset, !.bytecount = r.bytecount, !.recordcount = r.recordcount]

\* recoverstate() over the lines of an open state file:
\* ret 1 when the file was read to its end, -1 on a line that matches no entry.
RECURSIVE RecoverLines(_, _)
RecoverLines(lines, flist) ==
  IF Len(lines) = 0 THEN [ret |-> 1, filelist |-> flist]
  ELSE LET r == sscanf(Head(lines))
       IN  IF r.fields < 5 THEN RecoverLines(Tail(lines), flist)
           ELSE LET i == FindEntry(flist, r.filename)
                IN  IF i = 0 THEN [ret |-> -1, filelist |-> flist]
                    ELSE RecoverLines(Tail(lines),
                                      [flist EXCEPT ![i] = UpdateEntry(flist[i], r)])

\* The state file does not exist
NoFile == <<"ENOENT">>

\* recoverstate() with every fopen() failure an error, ENOENT included
recoverstateStrict(sf, flist) ==
  IF sf = NoFile THEN [ret |-> -1, filelist |-> flist]
  ELSE RecoverLines(fgets(sf), flist)

\* recoverstate(): 0 when the state file does not exist
recoverstate(sf, flist) ==
  IF sf = NoFile THEN [ret |-> 0, filelist |-> flist]
  ELSE RecoverLines(fgets(sf), flist)

(***************************************************************************)
(* The input files.  A file is a sequence of blocks of RecLen bytes:       *)
(*   "rec"  a data record the selections accept                            *)
(*   "rej"  a data record the selections reject (ms_matchselect gives 0)   *)
(*   "junk" bytes that are no data record (skipped, skipnotdata = 1)       *)
(*   "bad"  a place where reading fails (read error, length out of range)  *)
(*   "long" a data record whose stream ID, with the file name put before   *)
(*          it (-fn), does not fit the 100 bytes of streamid               *)
(***************************************************************************)
PA == <<"a">>
PB == <<"b">>
PC == <<"c">>
PS == <<"a", SP, "b">>

\* Each scenario: the command line's input files, in order, what the file
\* system holds under each name when the first execution starts, and the
\* files another process appends a record to while the program is in use.
Scenarios == <<
  [roots |-> <<PA, PB, PC>>,
   grows |-> {}, disk |-> (PA :> <<"rec", "rec">>) @@ (PB :> <<>>) @@ (PC :> <<"rec">>)],
  [roots |-> <<PA, PB>>, grows |-> {}, disk |-> (PA :> <<"rec", "junk">>) @@ (PB :> <<"rec", "rec">>)],
  [roots |-> <<PA, PB>>, grows |-> {}, disk |-> (PA :> <<"junk">>) @@ (PB :> <<"rec">>)],
  [roots |-> <<PS, PB>>, grows |-> {}, disk |-> (PS :> <<"rec", "rec">>) @@ (PB :> <<"rec">>)],
  [roots |-> <<PA, PB>>, grows |-> {}, disk |-> (PA :> <<>>) @@ (PB :> <<"rej", "rec">>)],
  [roots |-> <<PA, PB>>, grows |-> {}, disk |-> (PA :> <<"rec", "bad">>) @@ (PB :> <<"rec">>)],
  [roots |-> <<PA, PB>>, grows |-> {}, disk |-> (PA :> <<"rec", "rej">>) @@ (PB :> <<"rec">>)],
  [roots |-> <<PA, PB>>, grows |-> {PA}, disk |-> (PA :> <<"rec">>) @@ (PB :> <<"rec">>)],
  [roots |-> <<PA, PB>>, grows |-> {}, disk |-> (PA :> <<"rec", "long">>) @@ (PB :> <<"rec">>)],
  [roots |-> <<PA, PA>>, grows |-> {PA}, disk |-> (PA :> <<"junk">>)]
>>

\* stat(): st_size of a file
FileSize(content) == RecLen * Len(content)

\* libmseed return codes
MS_NOERROR == "MS_NOERROR"
MS_ENDOFFILE == "MS_ENDOFFILE"
MS_NOTSEED == "MS_NOTSEED"
MS_GENERROR == "MS_GENERROR"

\* No record in msr
NoRecord == [pos |-> -1, reclen |-> 0, kind |-> "none"]

\* The reader's file parameters after a reset (ms_readmsr with msfile NULL)
ClosedFile == [open |-> FALSE, pos |-> 0, recordcount |-> 0]

\* The search for the next record from block index i on
RECURSIVE ScanBlocks(_, _)
ScanBlocks(content, i) ==
  IF i > Len(content) THEN [at |-> i, what |-> "eof"]
  ELSE IF content[i] = "junk" THEN ScanBlocks(content, i + 1)
  ELSE IF content[i] = "bad" THEN [at |-> i, what |-> "error"]
  ELSE [at |-> i, what |-> "record"]

(***************************************************************************)
(* ms_readmsr (&msr, name, -1, &filepos, NULL, 1, 0, verbose):             *)
(* opens the file when it is not open; a negative *fpos is a request to    *)
(* seek to -*fpos; *fpos is set to the position of the record returned,    *)
(* and left alone when no record is returned.  At the end of the file the  *)
(* result is MS_NOTSEED when no record was read since the file was opened. *)
(***************************************************************************)
ms_readmsr(content, fp, fpos) ==
  LET start == IF fpos < 0 THEN -fpos ELSE IF fp.open THEN fp.pos ELSE 0
      count == IF fp.open THEN fp.recordcount ELSE 0
      r     == ScanBlocks(content, (start \div RecLen) + 1)
  IN  IF r.what = "record"
      THEN [retcode |-> MS_NOERROR,
            filepos |-> (r.at - 1) * RecLen,
            msr |-> [pos |-> (r.at - 1) * RecLen, reclen |-> RecLen, kind |-> content[r.at]],
            msfp |-> [open |-> TRUE, pos |-> r.at * RecLen, recordcount |-> count + 1]]
      ELSE [retcode |-> IF r.what = "error" THEN MS_GENERROR
                        ELSE IF count = 0 THEN MS_NOTSEED ELSE MS_ENDOFFILE,
            filepos |-> fpos,
            msr |-> NoRecord,
            msfp |-> [open |-> TRUE, pos |-> (r.at - 1) * RecLen, recordcount |-> count]]

(***************************************************************************)
(* State.                                                                  *)
(***************************************************************************)
VARIABLES
  sc,           \* which scenario (file system and command line)
  run,          \* number of this execution of the program
  roots,        \* input files named on this execution's command line
  pretend,      \* -p
  quitonerror,  \* -E
  pc,           \* where main() is
  retpc,        \* where savestate() returns to
  saveidx,      \* printfilelist(): the next entry to print
  filelist,     \* the input file list, a sequence of FileLink
  file,         \* main(): index of the current entry of filelist
  stopsig,      \* stop/termination signal
  restart,      \* main(): a send failed, reconnect
  exitval,      \* main(): exit status
  retcode,      \* main(): last return value of ms_readmsr
  filepos,      \* main(): position given to and returned by ms_readmsr
  msfp,         \* ms_readmsr's file parameters
  msr,          \* the record read last
  totalbytes,   \* count of total bytes sent
  totalrecords, \* count of total records sent
  totalfiles,   \* count of total files sent
  statefile,    \* content of the state file on disk, or NoFile
  tmpfile,      \* content of the temporary state file on disk, or NoFile
  fails,        \* transport failures so far
  wfails,       \* failed writes to the temporary state file so far
  kills,        \* kills so far
  maxrate,      \* -mr: max rate in bits/sec, 0 to disable
  now,          \* gettimeofday(): ticks since procstart
  stderr,       \* what print_handler() has printed, dump by dump
  cwd,          \* the current working directory of the process
  tm,           \* timeutils.c: the arguments and results of the call in hand
  attempts,     \* dl_connect calls of this execution
  sent,         \* how often each record was written to the server (dl_write >= 0)
  reported,     \* which "All data transmitted" message this execution printed
  savedlist,    \* the file list as it was when the state file was last replaced
  lastfail,     \* the record whose dl_write failed last, until a write succeeds
  signalled,    \* term_handler ran in this execution
  pretended,    \* some execution so far ran with -p
  recovery,     \* processparam(): what recoverstate() returned
  grown,        \* the scenario's growing files have got their appended record
  dirents,      \* what readdir() returns for the directory, in its order
  edirp,        \* the EDIR: ents (the list of entries) and current
  sortst,       \* sortedirentries(): where it is, insize, totalmerges
  yielded,      \* the entries ereaddir() has returned so far
  fsys,         \* the file tree: access to its directories, readdir()'s order
  cmdline       \* the command line: its file arguments and the -r value

vars == <<sc, run, roots, pretend, quitonerror, pc, retpc, saveidx, filelist, file,
          stopsig, restart, exitval, retcode, filepos, msfp, msr, totalbytes,
          totalrecords, totalfiles, statefile, tmpfile, fails, wfails, kills, attempts,
          sent, reported, savedlist, lastfail, signalled, pretended, recovery,
          grown, dirents, edirp, sortst, yielded, fsys, cmdline, maxrate, now,
          stderr, cwd, tm>>

\* What the command line and the file system are, unchanged by the program
config == <<sc, run, roots, pretend, quitonerror, pretended, grown, fsys, cmdline,
            maxrate, stderr, cwd, tm>>
\* The directory stream of edir.c
dirs == <<dirents, edirp, sortst, yielded>>
\* The environment's counters
env == <<fails, wfails, kills>>
\* The state file and its temporary file
disk == <<statefile, tmpfile, savedlist>>
\* The session totals
totals == <<totalbytes, totalrecords, totalfiles, recovery>>
\* The reader's variables
reader == <<retcode, filepos, msfp, msr, signalled>>

\* What the file system holds under each name now
Disk ==
  [n \in DOMAIN Scenarios[sc].disk |->
     IF grown /\ n \in Scenarios[sc].grows
     THEN Scenarios[sc].disk[n] \o <<"rec">>
     ELSE Scenarios[sc].disk[n]]

NoRec == <<>>

\* The records of the scenario's files, by name and position
Recs(s) ==
  UNION {{<<n, (i - 1) * RecLen>> :
             i \in 1..(Len(Scenarios[s].disk[n])
                         + IF n \in Scenarios[s].grows THEN 1 ELSE 0)} :
           n \in DOMAIN Scenarios[s].disk}

\* addfile() for each input file of the command line: a new FileLink at the
\* end of the list, offset and counts 0, size from stat()
RECURSIVE addfile(_, _)
addfile(rts, dsk) ==
  IF Len(rts) = 0 THEN <<>>
  ELSE <<FileLink(Head(rts), FileSize(dsk[Head(rts)]))>> \o addfile(Tail(rts), dsk)

\* main(): the check that all input data was sent
allsent(flist) == \A i \in 1..Len(flist) : flist[i].bytecount = flist[i].size

\* No call of timeutils.c is in hand
NoTime == [op |-> "none"]

\* The directory the process is started in; the paths of the model are
\* relative to it
StartDir == <<>>

\* The input files are given by the scenario, not by a walk of a file tree
NoTree ==
  /\ fsys = [access |-> <<>>, native |-> <<>>]
  /\ cmdline = [args |-> <<>>, maxrecur |-> -1, schar |-> TRUE, optind |-> 1,
                listfiles |-> <<>>]

\* No directory is open
NoEDIR == [ents |-> <<>>, current |-> 0]
NoDirectory ==
  /\ dirents = <<>>
  /\ edirp = NoEDIR
  /\ sortst = [pc |-> "none", insize |-> 0, totalmerges |-> 0]
  /\ yielded = <<>>

\* Memory of a process that has just started
StartMem ==
  /\ retpc = "none"
  /\ saveidx = 0
  /\ filelist = <<>>
  /\ file = 0
  /\ stopsig = FALSE
  /\ restart = FALSE
  /\ exitval = 0
  /\ retcode = MS_ENDOFFILE
  /\ filepos = 0
  /\ msfp = ClosedFile
  /\ msr = NoRecord
  /\ totalbytes = 0
  /\ totalrecords = 0
  /\ totalfiles = 0
  /\ now = 0
  /\ attempts = 0
  /\ reported = "none"
  /\ lastfail = NoRec
  /\ signalled = FALSE
  /\ recovery = 0

\* The same of the next state
ResetMem ==
  /\ retpc' = "none"
  /\ saveidx' = 0
  /\ filelist' = <<>>
  /\ file' = 0
  /\ stopsig' = FALSE
  /\ restart' = FALSE
  /\ exitval' = 0
  /\ retcode' = MS_ENDOFFILE
  /\ filepos' = 0
  /\ msfp' = ClosedFile
  /\ msr' = NoRecord
  /\ totalbytes' = 0
  /\ totalrecords' = 0
  /\ totalfiles' = 0
  /\ now' = 0
  /\ attempts' = 0
  /\ reported' = "none"
  /\ lastfail' = NoRec
  /\ signalled' = FALSE
  /\ recovery' = 0

Init ==
  /\ sc \in 1..Len(Scenarios)
  /\ grown = FALSE
  /\ NoTree
  /\ NoDirectory
  /\ run = 1
  /\ roots = Scenarios[sc].roots
  /\ pretend \in BOOLEAN
  /\ quitonerror \in BOOLEAN
  /\ pretended = pretend
  /\ pc = "main"
  /\ StartMem
  /\ statefile = NoFile
  /\ tmpfile = NoFile
  /\ fails = 0
  /\ wfails = 0
  /\ kills = 0
  /\ maxrate = 0
  /\ stderr = <<>>
  /\ cwd = StartDir
  /\ tm = NoTime
  /\ sent = [r \in Recs(sc) |-> 0]
  /\ savedlist = <<>>

(***************************************************************************)
(* main(), line 149: processparam() builds the input file list and         *)
(* recovers the state; exit (1) when recoverstate() returns -1.            *)
(***************************************************************************)
processparam ==
  /\ pc = "main"
  /\ LET r == recoverstate(statefile, addfile(roots, Disk))
     IN  /\ filelist' = r.filelist
         /\ recovery' = r.ret
         /\ IF r.ret = -1
            THEN pc' = "done" /\ exitval' = 1
            ELSE pc' = "shortcut" /\ exitval' = exitval
  /\ UNCHANGED <<config, now, dirs, env, disk, totalbytes, totalrecords, totalfiles, reader,
                 retpc, saveidx, file, stopsig, restart, attempts, sent, reported,
                 lastfail>>

(***************************************************************************)
(* main(), lines 152-170: all input data already sent, by the saved state  *)
(***************************************************************************)
Shortcut ==
  /\ pc = "shortcut"
  /\ IF allsent(filelist)
     THEN pc' = "done" /\ reported' = "state"
     ELSE pc' = "scan" /\ reported' = reported
  /\ UNCHANGED <<config, now, dirs, env, disk, totals, reader, retpc, saveidx, filelist, file,
                 stopsig, restart, exitval, attempts, sent, lastfail>>

(***************************************************************************)
(* main(), lines 189-212: the head of the scan loop and the connection.    *)
(* dl_connect() fails or succeeds; the server grants write permission or   *)
(* does not.                                                               *)
(***************************************************************************)
\* The count of dl_connect() calls, which stops counting behind the
\* MaxFails + 1 calls that MaxFails failures allow
Connects(n) == IF n <= MaxFails THEN n + 1 ELSE n

ScanStop ==
  /\ pc = "scan"
  /\ stopsig
  /\ pc' = "end"
  /\ UNCHANGED <<config, now, dirs, env, disk, totals, reader, retpc, saveidx, filelist, file,
                 stopsig, restart, exitval, attempts, sent, reported, lastfail>>

ScanPretend ==
  /\ pc = "scan"
  /\ ~stopsig
  /\ pretend
  /\ file' = 1
  /\ restart' = FALSE
  /\ pc' = "files"
  /\ UNCHANGED <<config, now, dirs, env, disk, totals, reader, retpc, saveidx, filelist,
                 stopsig, exitval, attempts, sent, reported, lastfail>>

ConnectFailure(counted) ==
  /\ pc = "scan"
  /\ ~stopsig
  /\ ~pretend
  /\ fails' = counted
  /\ UNCHANGED wfails
  /\ attempts' = Connects(attempts)
  /\ file' = 1
  /\ pc' = "retry"
  /\ UNCHANGED <<config, now, dirs, kills, disk, totals, reader, retpc, saveidx, filelist,
                 stopsig, restart, exitval, sent, reported, lastfail>>

\* dl_connect() fails, one of the MaxFails failures of the environment
ConnectFail == fails < MaxFails /\ ConnectFailure(fails + 1)

\* dl_connect() fails, any number of times
ConnectFailAgain == ConnectFailure(fails)

ConnectOk ==
  /\ pc = "scan"
  /\ ~stopsig
  /\ ~pretend
  /\ attempts' = Connects(attempts)
  /\ file' = 1
  /\ restart' = FALSE
  /\ pc' = "files"
  /\ UNCHANGED <<config, now, dirs, env, disk, totals, reader, retpc, saveidx, filelist,
                 stopsig, exitval, sent, reported, lastfail>>

\* A variant in which the missing write permission leaves the exit status
ConnectNoWritePermQuiet ==
  /\ pc = "scan"
  /\ ~stopsig
  /\ ~pretend
  /\ attempts' = Connects(attempts)
  /\ file' = 1
  /\ restart' = FALSE
  /\ stopsig' = TRUE
  /\ exitval' = exitval
  /\ pc' = "end"
  /\ UNCHANGED <<config, now, dirs, env, disk, totals, reader, retpc, saveidx, filelist,
                 sent, reported, lastfail>>

ConnectNoWritePerm ==
  /\ pc = "scan"
  /\ ~stopsig
  /\ ~pretend
  /\ attempts' = Connects(attempts)
  /\ file' = 1
  /\ restart' = FALSE
  /\ stopsig' = TRUE
  /\ exitval' = 1
  /\ pc' = "end"
  /\ UNCHANGED <<config, now, dirs, env, disk, totals, reader, retpc, saveidx, filelist,
                 sent, reported, lastfail>>

(***************************************************************************)
(* main(), lines 214-242: the head of the file loop.  A file whose offset  *)
(* is its size is passed over; for any other file the counts are reset     *)
(* and, when the offset is > 0, filepos is set to -offset.                 *)
(***************************************************************************)
FilesLeave ==
  /\ pc = "files"
  /\ (restart \/ stopsig)
  /\ pc' = "retry"
  /\ UNCHANGED <<config, now, dirs, env, disk, totals, reader, retpc, saveidx, filelist, file,
                 stopsig, restart, exitval, attempts, sent, reported, lastfail>>

FileSkipSent ==
  /\ pc = "files"
  /\ ~restart /\ ~stopsig
  /\ filelist[file].offset = filelist[file].size
  /\ IF file = Len(filelist)
     THEN stopsig' = TRUE /\ file' = file
     ELSE stopsig' = stopsig /\ file' = file + 1
  /\ UNCHANGED <<config, now, dirs, env, disk, totals, reader, pc, retpc, saveidx, filelist,
                 restart, exitval, attempts, sent, reported, lastfail>>

\* lines 236-242 with the offset reset together with the counters
BeginFileAtZero(f, fpos) ==
  [list |-> [f EXCEPT !.offset = 0, !.bytecount = 0, !.recordcount = 0],
   filepos |-> fpos]

\* lines 236-242
BeginFile(f, fpos) ==
  [list |-> [f EXCEPT !.bytecount = 0, !.recordcount = 0],
   filepos |-> IF f.offset > 0 THEN f.offset * (-1) ELSE fpos]

FileBegin ==
  /\ pc = "files"
  /\ ~restart /\ ~stopsig
  /\ filelist[file].offset # filelist[file].size
  /\ LET b == BeginFile(filelist[file], filepos)
     IN  /\ filelist' = [filelist EXCEPT ![file] = b.list]
         /\ filepos' = b.filepos
  /\ pc' = "read"
  /\ UNCHANGED <<config, now, dirs, env, disk, totals, retcode, msfp, msr, signalled, retpc, saveidx, file,
                 stopsig, restart, exitval, attempts, sent, reported, lastfail>>

(***************************************************************************)
(* main(), lines 245-246: the head of the record loop.  With stopsig set   *)
(* ms_readmsr is not called and retcode keeps its value.                   *)
(***************************************************************************)
ReadStop ==
  /\ pc = "read"
  /\ stopsig
  /\ pc' = "eof"
  /\ UNCHANGED <<config, now, dirs, env, disk, totals, reader, retpc, saveidx, filelist, file,
                 stopsig, restart, exitval, attempts, sent, reported, lastfail>>

\* A variant of the read that does not look at the stop signal
ReadIgnoringStop ==
  /\ pc = "read"
  /\ LET r == ms_readmsr(Disk[filelist[file].name], msfp, filepos)
     IN  /\ retcode' = r.retcode
         /\ filepos' = r.filepos
         /\ msr' = r.msr
         /\ msfp' = r.msfp
         /\ pc' = IF r.retcode = MS_NOERROR THEN "record" ELSE "eof"
  /\ UNCHANGED <<config, now, dirs, env, disk, totals, signalled, retpc, saveidx, filelist, file,
                 stopsig, restart, exitval, attempts, sent, reported, lastfail>>

Read ==
  /\ pc = "read"
  /\ ~stopsig
  /\ LET r == ms_readmsr(Disk[filelist[file].name], msfp, filepos)
     IN  /\ retcode' = r.retcode
         /\ filepos' = r.filepos
         /\ msr' = r.msr
         /\ msfp' = r.msfp
         /\ pc' = IF r.retcode = MS_NOERROR THEN "record" ELSE "eof"
  /\ UNCHANGED <<config, now, dirs, env, disk, totals, signalled, retpc, saveidx, filelist, file,
                 stopsig, restart, exitval, attempts, sent, reported, lastfail>>

(***************************************************************************)
(* main(), lines 251-266: a record the selections do not match is passed   *)
(* over (continue).                                                        *)
(***************************************************************************)
\* A variant in which the rejected record is accounted as a sent one
RejectRecordCounted ==
  /\ pc = "record"
  /\ msr.kind = "rej"
  /\ filelist' = [filelist EXCEPT ![file].offset = filepos + msr.reclen]
  /\ pc' = "read"
  /\ UNCHANGED <<config, now, dirs, env, disk, totals, reader, retpc, saveidx, file,
                 stopsig, restart, exitval, attempts, sent, reported, lastfail>>

RejectRecord ==
  /\ pc = "record"
  /\ msr.kind = "rej"
  /\ pc' = "read"
  /\ UNCHANGED <<config, now, dirs, env, disk, totals, reader, retpc, saveidx, filelist, file,
                 stopsig, restart, exitval, attempts, sent, reported, lastfail>>

\* main(), lines 268-282: the stream ID of the record was truncated
StreamIdTooLong ==
  /\ pc = "record"
  /\ msr.kind = "long"
  /\ stopsig' = TRUE
  /\ exitval' = 1
  /\ pc' = "eof"
  /\ UNCHANGED <<config, now, dirs, env, disk, totals, reader, retpc, saveidx, filelist, file,
                 restart, attempts, sent, reported, lastfail>>

\* lines 327-332: the entry after a record was sent
TrackSent(f, fpos, reclen) ==
  [f EXCEPT !.offset = fpos + reclen,
            !.bytecount = f.bytecount + reclen,
            !.recordcount = f.recordcount + 1]

\* The record in msr, by file name and position
CurrentRec == <<filelist[file].name, msr.pos>>

(***************************************************************************)
(* main(), lines 284-313: the maximum transmission rate.  Time is counted  *)
(* in ticks since procstart (line 184), TicksPerSecond of them a second;   *)
(* the comparisons of the code's doubles are made on the numerators.       *)
(***************************************************************************)
TicksPerSecond == 2

\* The least whole number that is at least n / d
Ceil(n, d) == (n + d - 1) \div d

\* lines 287, 299-302: rateinterval = totalbits / maxrate - interval, here
\* multiplied by maxrate * TicksPerSecond
RateInterval(bytes, reclen) == (bytes + reclen) * 8 * TicksPerSecond - maxrate * now

\* lines 305-310: naptime.tv_sec = 0, naptime.tv_nsec = rateinterval * 1e9,
\* the ticks that nanosleep() can then take.  Below one second it sleeps
\* that long; from one second on tv_nsec is out of range and nanosleep()
\* returns EINVAL at once; above LONG_MAX nanoseconds of a 32-bit long
\* (2.147 s) the conversion is undefined, and a tv_nsec that happens to be
\* valid sleeps less than a second.
nanosleep(ri) ==
  IF ri < maxrate * TicksPerSecond THEN {Ceil(ri, maxrate)}
  ELSE IF ri * 1000 <= 2147 * maxrate * TicksPerSecond THEN {0}
  ELSE 0..TicksPerSecond

\* lines 285-313: the times at which the dl_write() of a record of reclen
\* bytes can follow
Throttle(bytes, reclen) ==
  IF maxrate # 0 /\ (now = 0 \/ (bytes + reclen) * 8 * TicksPerSecond > maxrate * now)
                 /\ RateInterval(bytes, reclen) > 0
  THEN {now + nap : nap \in nanosleep(RateInterval(bytes, reclen))}
  ELSE {now}

(***************************************************************************)
(* main(), lines 317-342: dl_write() returns < 0 (restart, leave the       *)
(* record loop) or the record counts as sent.  With -p dl_write() is not   *)
(* called and the record counts as sent.                                   *)
(***************************************************************************)
SendFailure(counted) ==
  /\ pc = "record"
  /\ msr.kind = "rec"
  /\ ~pretend
  /\ fails' = counted
  /\ UNCHANGED wfails
  /\ restart' = TRUE
  /\ lastfail' = CurrentRec
  /\ now' \in Throttle(totalbytes, msr.reclen)
  /\ pc' = "eof"
  /\ UNCHANGED <<config, dirs, kills, disk, totals, reader, retpc, saveidx, filelist, file,
                 stopsig, exitval, attempts, sent, reported>>

\* dl_write() fails, one of the MaxFails failures of the environment
SendFail == fails < MaxFails /\ SendFailure(fails + 1)

\* dl_write() fails, any number of times while the session totals are
\* below MaxTotal records and files
SendFailAgain ==
  /\ totalrecords < MaxTotal
  /\ totalfiles < MaxTotal
  /\ SendFailure(fails)

SendOk ==
  /\ pc = "record"
  /\ msr.kind = "rec"
  /\ ~pretend
  /\ filelist' = [filelist EXCEPT ![file] = TrackSent(filelist[file], filepos, msr.reclen)]
  /\ totalbytes' = totalbytes + msr.reclen
  /\ totalrecords' = totalrecords + 1
  /\ sent' = [sent EXCEPT ![CurrentRec] = sent[CurrentRec] + 1]
  /\ lastfail' = NoRec
  /\ now' \in Throttle(totalbytes, msr.reclen)
  /\ pc' = "read"
  /\ UNCHANGED <<config, dirs, env, disk, totalfiles, recovery, reader, retpc, saveidx,
                 file, stopsig, restart, exitval, attempts, reported>>

SendPretend ==
  /\ pc = "record"
  /\ msr.kind = "rec"
  /\ pretend
  /\ filelist' = [filelist EXCEPT ![file] = TrackSent(filelist[file], filepos, msr.reclen)]
  /\ totalbytes' = totalbytes + msr.reclen
  /\ totalrecords' = totalrecords + 1
  /\ now' \in Throttle(totalbytes, msr.reclen)
  /\ pc' = "read"
  /\ UNCHANGED <<config, dirs, env, disk, totalfiles, recovery, reader, retpc, saveidx,
                 file, stopsig, restart, exitval, attempts, sent, reported, lastfail>>

\* lines 375-379: no SEED data found, skipping
IsSkip(f, rc) == rc = MS_NOTSEED /\ f.bytecount = 0

\* lines 380-385: error reading the file
IsReadError(f, rc, stop, rst) ==
  ~IsSkip(f, rc) /\ rc # MS_ENDOFFILE /\ ~stop /\ ~rst

(***************************************************************************)
(* main(), lines 371-416: after the record loop.  The reader is reset,     *)
(* the file is marked skipped or a read error ends the run; unless a       *)
(* restart is pending the file counts as sent and the state is saved when  *)
(* it is not the last file.                                                *)
(***************************************************************************)
EndOfFile ==
  /\ pc = "eof"
  /\ msfp' = ClosedFile
  /\ msr' = NoRecord
  /\ filelist' = IF IsSkip(filelist[file], retcode)
                 THEN [filelist EXCEPT ![file].bytecount = filelist[file].size]
                 ELSE filelist
  /\ IF IsReadError(filelist[file], retcode, stopsig, restart)
     THEN exitval' = 1 /\ stopsig' = TRUE
     ELSE exitval' = exitval /\ stopsig' = stopsig
  /\ IF restart
     THEN pc' = "retry" /\ totalfiles' = totalfiles /\ retpc' = retpc
     ELSE /\ totalfiles' = totalfiles + 1
          /\ IF file < Len(filelist)
             THEN pc' = "save_open" /\ retpc' = "advance"
             ELSE pc' = "advance" /\ retpc' = retpc
  /\ UNCHANGED <<config, now, dirs, env, disk, totalbytes, totalrecords, recovery, retcode,
                 filepos, signalled, saveidx, file, restart, attempts, sent, reported, lastfail>>

\* main(), lines 418-421: the last file sets the stop signal, else the next file
Advance ==
  /\ pc = "advance"
  /\ IF file = Len(filelist)
     THEN stopsig' = TRUE /\ file' = file
     ELSE stopsig' = stopsig /\ file' = file + 1
  /\ pc' = "files"
  /\ UNCHANGED <<config, now, dirs, env, disk, totals, reader, retpc, saveidx, filelist,
                 restart, exitval, attempts, sent, reported, lastfail>>

\* main(), lines 425-435: quit on connection errors, or sleep and scan again
Retry ==
  /\ pc = "retry"
  /\ pc' = IF ~stopsig /\ quitonerror THEN "end" ELSE "scan"
  /\ UNCHANGED <<config, now, dirs, env, disk, totals, reader, retpc, saveidx, filelist, file,
                 stopsig, restart, exitval, attempts, sent, reported, lastfail>>

\* main(), lines 437-463: after the scan loop, disconnect and save the state file
EndScan ==
  /\ pc = "end"
  /\ pc' = "save_open"
  /\ retpc' = "final"
  /\ UNCHANGED <<config, now, dirs, env, disk, totals, reader, saveidx, filelist, file,
                 stopsig, restart, exitval, attempts, sent, reported, lastfail>>

(***************************************************************************)
(* savestate(): the temporary file is opened for writing (and so emptied), *)
(* printfilelist() writes the entries into it, it is closed and renamed    *)
(* over the state file.                                                    *)
(***************************************************************************)
\* fopen (tmpstatefile, "w"): the temporary file is there and empty
OpenTemp(tmp, sf) == [statefile |-> sf, tmpfile |-> <<>>]

SaveOpen ==
  /\ pc = "save_open"
  /\ LET o == OpenTemp(tmpfile, statefile)
     IN  statefile' = o.statefile /\ tmpfile' = o.tmpfile
  /\ saveidx' = 0
  /\ pc' = "save_write"
  /\ UNCHANGED <<config, now, dirs, env, savedlist, totals, reader, retpc, filelist,
                 file, stopsig, restart, exitval, attempts, sent, reported, lastfail>>

SaveWrite ==
  /\ pc = "save_write"
  /\ saveidx < Len(filelist)
  /\ saveidx' = saveidx + 1
  /\ tmpfile' = tmpfile \o FileLine(filelist[saveidx + 1])
  /\ UNCHANGED <<config, now, dirs, env, statefile, savedlist, totals, reader, pc, retpc,
                 filelist, file, stopsig, restart, exitval, attempts, sent, reported,
                 lastfail>>

\* printfilelist(), fprintf() returns an error that is not looked at (the
\* disk is full): the entry's line is not in the temporary file
SaveWriteFail ==
  /\ pc = "save_write"
  /\ saveidx < Len(filelist)
  /\ wfails < MaxWriteFails
  /\ wfails' = wfails + 1
  /\ saveidx' = saveidx + 1
  /\ UNCHANGED <<config, now, dirs, fails, kills, disk, totals, reader, pc, retpc,
                 filelist, file, stopsig, restart, exitval, attempts, sent, reported,
                 lastfail>>

\* rename (tmpstatefile, statefile)
Rename(tmp, sf) == [statefile |-> tmp, tmpfile |-> NoFile]

SaveRename ==
  /\ pc = "save_write"
  /\ saveidx = Len(filelist)
  /\ LET r == Rename(tmpfile, statefile)
     IN  statefile' = r.statefile /\ tmpfile' = r.tmpfile
  /\ savedlist' = filelist
  /\ pc' = retpc
  /\ UNCHANGED <<config, now, dirs, env, totals, reader, retpc, saveidx, filelist, file,
                 stopsig, restart, exitval, attempts, sent, reported, lastfail>>

\* main(), lines 469-490: the check that all input data was sent, and the exit
Final ==
  /\ pc = "final"
  /\ reported' = IF allsent(filelist) THEN "end" ELSE reported
  /\ pc' = "done"
  /\ UNCHANGED <<config, now, dirs, env, disk, totals, reader, retpc, saveidx, filelist, file,
                 stopsig, restart, exitval, attempts, sent, lastfail>>

\* term_handler(): SIGINT or SIGTERM arrives while the program runs
term_handler ==
  /\ pc \notin {"done", "dead"}
  /\ ~stopsig
  /\ stopsig' = TRUE
  /\ signalled' = TRUE
  /\ UNCHANGED <<config, now, dirs, env, disk, totals, retcode, filepos, msfp, msr, pc, retpc,
                 saveidx, filelist, file, restart, exitval, attempts, sent, reported,
                 lastfail>>

\* The process is killed (SIGKILL): its memory is gone, the files stay
Kill ==
  /\ pc \notin {"done", "dead"}
  /\ kills < MaxKills
  /\ kills' = kills + 1
  /\ ResetMem
  /\ pc' = "dead"
  /\ UNCHANGED <<config, dirs, fails, wfails, disk, sent>>

\* The program is started again, on the same files or without the first of them
Restart ==
  /\ pc \in {"done", "dead"}
  /\ run < MaxRuns
  /\ run' = run + 1
  /\ roots' \in {Scenarios[sc].roots, Tail(Scenarios[sc].roots)}
  /\ pretend' \in BOOLEAN
  /\ quitonerror' \in BOOLEAN
  /\ pretended' = (pretended \/ pretend')
  /\ pc' = "main"
  /\ ResetMem
  /\ UNCHANGED <<sc, grown, fsys, cmdline, maxrate, stderr, cwd, tm, dirs, env, disk, sent>>

\* Another process appends a record to a file that is still being written
AppendRecord ==
  /\ ~grown
  /\ Scenarios[sc].grows # {}
  /\ grown' = TRUE
  /\ UNCHANGED <<sc, run, roots, pretend, quitonerror, pretended, fsys, cmdline, maxrate,
                 stderr, cwd, tm, now, dirs, env, disk, totals,
                 reader, pc, retpc, saveidx, filelist, file, stopsig, restart,
                 exitval, attempts, sent, reported, lastfail>>

Next ==
  \/ processparam
  \/ Shortcut
  \/ ScanStop
  \/ ScanPretend
  \/ ConnectFail
  \/ ConnectOk
  \/ ConnectNoWritePerm
  \/ FilesLeave
  \/ FileSkipSent
  \/ FileBegin
  \/ ReadStop
  \/ Read
  \/ RejectRecord
  \/ StreamIdTooLong
  \/ SendFail
  \/ SendOk
  \/ SendPretend
  \/ EndOfFile
  \/ Advance
  \/ Retry
  \/ EndScan
  \/ SaveOpen
  \/ SaveWrite
  \/ SaveWriteFail
  \/ SaveRename
  \/ Final
  \/ term_handler
  \/ Kill
  \/ Restart
  \/ AppendRecord

Spec == Init /\ [][Next]_vars

(***************************************************************************)
(* One execution that nothing kills, with a transport that may fail any    *)
(* number of times.  The process takes its steps (weak fairness), and      *)
(* dl_connect() and dl_write(), tried again and again, succeed in the end  *)
(* (strong fairness).                                                      *)
(***************************************************************************)
\* The steps of main()
Main ==
  \/ processparam
  \/ Shortcut
  \/ ScanStop
  \/ ScanPretend
  \/ ConnectOk
  \/ ConnectNoWritePerm
  \/ FilesLeave
  \/ FileSkipSent
  \/ FileBegin
  \/ ReadStop
  \/ Read
  \/ RejectRecord
  \/ StreamIdTooLong
  \/ SendOk
  \/ SendPretend
  \/ EndOfFile
  \/ Advance
  \/ Retry
  \/ EndScan
  \/ SaveOpen
  \/ SaveWrite
  \/ SaveRename
  \/ Final

NextFair ==
  \/ Main
  \/ ConnectFailAgain
  \/ SendFailAgain
  \/ term_handler

SpecFair ==
  /\ Init
  /\ [][NextFair]_vars
  /\ WF_vars(Main)
  /\ SF_vars(ConnectOk)
  /\ SF_vars(SendOk)

(***************************************************************************)
(* The sessions with a maximum rate: -mr (processparam(), lines 814-819)    *)
(* with one of Rates, in bits per second, and time passing between the     *)
(* steps of main() until MaxNow ticks after procstart.                     *)
(***************************************************************************)
Rates == {8, 32}
MaxNow == 4

InitThrottle ==
  /\ sc \in 1..Len(Scenarios)
  /\ grown = FALSE
  /\ NoTree
  /\ NoDirectory
  /\ run = 1
  /\ roots = Scenarios[sc].roots
  /\ pretend \in BOOLEAN
  /\ quitonerror \in BOOLEAN
  /\ pretended = pretend
  /\ pc = "main"
  /\ StartMem
  /\ statefile = NoFile
  /\ tmpfile = NoFile
  /\ fails = 0
  /\ wfails = 0
  /\ kills = 0
  /\ maxrate \in Rates
  /\ stderr = <<>>
  /\ cwd = StartDir
  /\ tm = NoTime
  /\ sent = [r \in Recs(sc) |-> 0]
  /\ savedlist = <<>>

\* gettimeofday(), line 289: the clock moves on while the process runs
Tick ==
  /\ pc \notin {"main", "done", "dead"}
  /\ now < MaxNow
  /\ now' = now + 1
  /\ UNCHANGED <<config, dirs, env, disk, totals, reader, pc, retpc, saveidx, filelist,
                 file, stopsig, restart, exitval, attempts, sent, reported, lastfail>>

NextThrottle ==
  \/ NextFair
  \/ Tick

SpecThrottle == InitThrottle /\ [][NextThrottle]_vars

(***************************************************************************)
(* The sessions with status dumps: SIGUSR1 runs print_handler() (lines     *)
(* 138-139, 1470-1475), which interrupts main() between any two of its     *)
(* statements.  The accounting of a sent record is two steps here: the     *)
(* offset (line 328), then the counts (lines 331-335).                     *)
(***************************************************************************)
MaxDumps == 1

InitDump ==
  /\ sc \in 1..Len(Scenarios)
  /\ grown = FALSE
  /\ NoTree
  /\ NoDirectory
  /\ run = 1
  /\ roots = Scenarios[sc].roots
  /\ pretend = FALSE
  /\ quitonerror \in BOOLEAN
  /\ pretended = pretend
  /\ pc = "main"
  /\ StartMem
  /\ statefile = NoFile
  /\ tmpfile = NoFile
  /\ fails = 0
  /\ wfails = 0
  /\ kills = 0
  /\ maxrate = 0
  /\ stderr = <<>>
  /\ cwd = StartDir
  /\ tm = NoTime
  /\ sent = [r \in Recs(sc) |-> 0]
  /\ savedlist = <<>>

\* lines 317-328: dl_write() returns 0 and the entry's offset is set
TrackOffset ==
  /\ pc = "record"
  /\ msr.kind = "rec"
  /\ ~pretend
  /\ filelist' = [filelist EXCEPT ![file].offset = filepos + msr.reclen]
  /\ sent' = [sent EXCEPT ![CurrentRec] = sent[CurrentRec] + 1]
  /\ lastfail' = NoRec
  /\ pc' = "counts"
  /\ UNCHANGED <<config, now, dirs, env, disk, totals, reader, retpc, saveidx, file,
                 stopsig, restart, exitval, attempts, reported>>

\* lines 331-335: the entry's and the session's counts
TrackCounts ==
  /\ pc = "counts"
  /\ filelist' = [filelist EXCEPT ![file] = TrackSent(filelist[file], filepos, msr.reclen)]
  /\ totalbytes' = totalbytes + msr.reclen
  /\ totalrecords' = totalrecords + 1
  /\ pc' = "read"
  /\ UNCHANGED <<config, now, dirs, env, disk, totalfiles, recovery, reader, retpc, saveidx,
                 file, stopsig, restart, exitval, attempts, sent, reported, lastfail>>

\* print_handler(), lines 1470-1475: SIGUSR1 arrives while the program
\* runs; the heading and the lines of printfilelist() go to stderr
print_handler ==
  /\ pc \notin {"done", "dead"}
  /\ Len(stderr) < MaxDumps
  /\ stderr' = Append(stderr, <<"Filename\tInode\tOffset\tModtime\n">> \o printfilelist(filelist))
  /\ UNCHANGED <<sc, run, roots, pretend, quitonerror, pretended, grown, fsys, cmdline,
                 maxrate, cwd, tm, now, dirs, env, disk, totals, reader, pc, retpc, saveidx,
                 filelist, file, stopsig, restart, exitval, attempts, sent, reported,
                 lastfail>>

NextDump ==
  \/ processparam
  \/ Shortcut
  \/ ScanStop
  \/ ConnectOk
  \/ FilesLeave
  \/ FileSkipSent
  \/ FileBegin
  \/ ReadStop
  \/ Read
  \/ RejectRecord
  \/ TrackOffset
  \/ TrackCounts
  \/ EndOfFile
  \/ Advance
  \/ Retry
  \/ EndScan
  \/ SaveOpen
  \/ SaveWrite
  \/ SaveRename
  \/ Final
  \/ term_handler
  \/ print_handler

SpecDump == InitDump /\ [][NextDump]_vars

(***************************************************************************)
(* recoverstate() on its own: an input file list with every entry at 0,    *)
(* the state file savestate() wrote for some progress of the same files,   *)
(* and recoverstate() applied to the list, then to its own result.         *)
(***************************************************************************)
\* The progress values an entry of the given size can be saved with
ProgressOf(f) ==
  {[f EXCEPT !.offset = o, !.bytecount = b, !.recordcount = b \div RecLen] :
     o \in {k * RecLen : k \in 0..(f.size \div RecLen)},
     b \in {k * RecLen : k \in 0..(f.size \div RecLen)}}

\* The lists that give every entry of flist some progress
RECURSIVE ProgressLists(_)
ProgressLists(flist) ==
  IF Len(flist) = 0 THEN {<<>>}
  ELSE {<<h>> \o t : h \in ProgressOf(Head(flist)), t \in ProgressLists(Tail(flist))}

InitRestore ==
  /\ sc \in 1..Len(Scenarios)
  /\ grown = FALSE
  /\ NoTree
  /\ NoDirectory
  /\ run = 1
  /\ roots = Scenarios[sc].roots
  /\ pretend = FALSE
  /\ quitonerror = FALSE
  /\ pretended = FALSE
  /\ pc = "restore"
  /\ retpc = "none"
  /\ saveidx = 0
  /\ savedlist \in ProgressLists(addfile(roots, Disk))
  /\ statefile = printfilelist(savedlist)
  /\ filelist = addfile(roots, Disk)
  /\ file = 0
  /\ stopsig = FALSE
  /\ restart = FALSE
  /\ exitval = 0
  /\ retcode = MS_ENDOFFILE
  /\ filepos = 0
  /\ msfp = ClosedFile
  /\ msr = NoRecord
  /\ totalbytes = 0
  /\ totalrecords = 0
  /\ totalfiles = 0
  /\ now = 0
  /\ attempts = 0
  /\ reported = "none"
  /\ lastfail = NoRec
  /\ signalled = FALSE
  /\ recovery = 0
  /\ tmpfile = NoFile
  /\ fails = 0
  /\ wfails = 0
  /\ kills = 0
  /\ maxrate = 0
  /\ stderr = <<>>
  /\ cwd = StartDir
  /\ tm = NoTime
  /\ sent = [r \in Recs(sc) |-> 0]

\* recoverstate (statefile), the first and the second time
Recover ==
  /\ pc \in {"restore", "restored"}
  /\ LET r == recoverstate(statefile, filelist)
     IN  filelist' = r.filelist /\ recovery' = r.ret
  /\ pc' = IF pc = "restore" THEN "restored" ELSE "restored2"
  /\ UNCHANGED <<config, now, dirs, env, disk, totalbytes, totalrecords, totalfiles, reader,
                 retpc, saveidx, file, stopsig, restart, exitval, attempts, sent,
                 reported, lastfail>>

NextRestore == Recover

SpecRestore == InitRestore /\ [][NextRestore]_vars

(***************************************************************************)
(* What the claims speak of.                                               *)
(***************************************************************************)
\* The blocks of the file of that name
Content(n) == Disk[n]

\* The position of block i
PosOf(i) == (i - 1) * RecLen

\* The blocks of a file that are records the selections accept and that the
\* reader can get to (no failing place before them)
Deliverable(n) ==
  {i \in 1..Len(Content(n)) :
     Content(n)[i] = "rec" /\ \A j \in 1..i : Content(n)[j] # "bad"}

\* Every deliverable record of every input file of this execution was sent
AllDelivered ==
  \A k \in 1..Len(roots) : \A i \in Deliverable(roots[k]) :
     sent[<<roots[k], PosOf(i)>>] >= 1

\* A file of accepted records only (possibly none); all files are such
Clean(n) == \A i \in 1..Len(Content(n)) : Content(n)[i] = "rec"
AllClean == \A n \in DOMAIN Disk : Clean(n)

\* The number of records in the files of the list of names
RECURSIVE RecordsIn(_)
RecordsIn(rts) ==
  IF Len(rts) = 0 THEN 0 ELSE Len(Content(Head(rts))) + RecordsIn(Tail(rts))

\* The paths in the committed state file, the paths of this execution's list
Persisted ==
  {savedlist[i].name : i \in {j \in 1..Len(savedlist) :
      \E l \in 1..Len(fgets(statefile)) : fgets(statefile)[l] = FileLine(savedlist[j])}}
Inventory == {roots[i] : i \in 1..Len(roots)}

\* The committed state file is the snapshot of the list: a line per entry
IsSnapshot(text, flist) ==
  /\ Len(fgets(text)) = Len(flist)
  /\ \A i \in 1..Len(flist) : fgets(text)[i] = FileLine(flist[i])

\* The offsets of the list cover only records that were sent (or blocks that
\* are not records to be sent)
Covered(flist) ==
  \A k \in 1..Len(flist) : \A i \in 1..Len(Content(flist[k].name)) :
     (PosOf(i) < flist[k].offset /\ Content(flist[k].name)[i] = "rec")
        => sent[<<flist[k].name, PosOf(i)>>] >= 1

\* C1: no record is delivered twice.  Over send failures and reconnects
\* within a run, and over successive runs each ending with its final save
\* (no kill) and the next one recovering that state, every record of every
\* input file is written to the server at most once.
C1_NoRecordTwice ==
  (kills = 0 /\ wfails = 0) => \A r \in DOMAIN sent : sent[r] <= 1

\* C2: unsent data is never treated as sent.  Whenever the program reports
\* "All data transmitted" (at startup from the saved state, or at the end),
\* every record the reader recognises and the selections accept has been
\* sent in this or an earlier run.  Stated for executions without -p.
C2_ReportedMeansDelivered ==
  (reported # "none" /\ ~pretended) => AllDelivered

\* C3: after a failed send the offset is the end of the last record sent,
\* and after the reconnect sending resumes with the failed record of the
\* same file: no record before the offset is read again, and the first
\* record handed to dl_write is the one that failed.
C3_ResumeWithFailedRecord ==
  (pc = "record" /\ lastfail # NoRec)
     => /\ msr.pos >= filelist[file].offset
        /\ (msr.kind = "rec" => CurrentRec = lastfail)

\* C4: resume exactness.  A file of N bytes sent in two runs (the first
\* stopped by the stop signal after k records, state saved and recovered)
\* ends like one uninterrupted run: offset N, bytes sent N, records sent
\* the file's record count.
C4_ResumeExact ==
  (/\ AllClean /\ run = 2 /\ pc = "done" /\ exitval = 0
   /\ kills = 0 /\ fails = 0 /\ wfails = 0 /\ ~signalled /\ ~pretended
   /\ roots = Scenarios[sc].roots)
     => \A k \in 1..Len(filelist) :
          /\ filelist[k].offset = filelist[k].size
          /\ filelist[k].bytecount = filelist[k].size
          /\ filelist[k].recordcount = Len(Content(filelist[k].name))

\* C5: with -E unset, no stop signal and no corrupt file, after any number
\* of transport failures the run ends with totalrecords the number of
\* records of all files and with the all-sent check true.
C5_AllSentAfterFailures ==
  (/\ AllClean /\ run = 1 /\ pc = "done" /\ exitval = 0
   /\ ~quitonerror /\ ~signalled /\ ~pretend)
     => (totalrecords = RecordsIn(roots) /\ reported = "end")

\* C6: savestate() is atomic for the committed state file.  The state file
\* changes in one step only, the rename, and then holds the whole snapshot
\* of the file list; any other step, a kill at any point of savestate()
\* included, leaves it as it was; whoever reads the state file finds no
\* state file or a whole snapshot, never a part of one.
C6_SaveAtomic ==
  [][/\ (statefile = NoFile \/ IsSnapshot(statefile, savedlist))
     /\ (statefile' # statefile
           => /\ pc = "save_write" /\ saveidx = Len(filelist)
              /\ IsSnapshot(statefile', filelist))]_vars

\* C7: progress is never recorded ahead of delivery.  Every offset, in
\* memory or in the committed state file, covers only bytes of records
\* that were sent or filtered out.
C7_OffsetsCoverSent ==
  Covered(filelist) /\ Covered(savedlist)

\* C8: a state file with a path that is no entry of the input file list
\* makes recoverstate() fail: the program exits with an error, before any
\* connection is attempted and any record is sent.
C8_ForeignPathStops ==
  [][(pc = "main" /\ pc' \notin {"main", "dead"} /\ ~(Persisted \subseteq Inventory))
       => (pc' = "done" /\ exitval' = 1 /\ attempts' = 0 /\ sent' = sent)]_vars

\* C9: recoverstate() is idempotent.  A second application, to the same
\* list with the same state file, succeeds and leaves every entry's offset
\* and counts as the first left them.
C9_RestoreIdempotent ==
  [][pc = "restored" => (recovery' = 1 /\ filelist' = filelist)]_vars

\* C10: save and recover round trip.  For an input file list of distinct
\* paths, the list built anew over the same files and recovered from the
\* state file has every entry's offset and counts as they were saved.
C10_SaveRestoreRoundTrip ==
  (/\ pc = "shortcut" /\ savedlist # <<>> /\ wfails = 0
   /\ roots = Scenarios[sc].roots /\ Len(savedlist) = Len(roots))
     => filelist = savedlist

\* An entry as addfile() makes it: offset 0 and zero counters
IsFresh(f) == f.offset = 0 /\ f.bytecount = 0 /\ f.recordcount = 0

\* C11: cold start.  When the state file does not exist, recoverstate()
\* returns 0 and the program does not exit with an error; every entry of
\* the file list has offset 0 and zero counters; the run goes on to the
\* scan and, when nothing stops it, ends with every deliverable record
\* of every file sent once, read from byte 0 of its file.
C11_ColdStart ==
  [][/\ (pc = "main" /\ statefile = NoFile /\ pc' \notin {"main", "dead"})
          => /\ recovery' = 0 /\ exitval' = 0 /\ pc' = "shortcut"
             /\ Len(filelist') = Len(roots)
             /\ \A i \in 1..Len(filelist') : IsFresh(filelist'[i])
     /\ (recovery = 0 /\ run = 1 /\ fails = 0 /\ pc = "files" /\ pc' = "read")
          => (filelist[file].offset = 0 /\ filepos' >= 0)
     /\ (/\ recovery = 0 /\ run = 1 /\ fails = 0 /\ ~signalled' /\ ~pretend /\ ~grown
         /\ pc' = "done" /\ exitval' = 0 /\ pc = "final")
          => (AllDelivered' /\ \A r \in DOMAIN sent : sent'[r] <= 1)]_vars

\* C11 witness: a first run without a state file came to its end, having
\* sent records
C11_ColdRunDone ==
  /\ run = 1 /\ pc = "done" /\ recovery = 0 /\ exitval = 0
  /\ fails = 0 /\ ~signalled /\ ~pretend
  /\ \E r \in DOMAIN sent : sent[r] = 1

\* C12: in every reachable state (the list just built, after recoverstate(),
\* after every step of the transfer) each entry of the file list has
\* 0 <= offset <= size.
C12_OffsetWithinSize ==
  \A i \in 1..Len(filelist) :
     0 <= filelist[i].offset /\ filelist[i].offset <= filelist[i].size

\* C13: within one execution, once recoverstate() is done, no entry's
\* offset ever gets smaller, whatever sends, send failures, reconnects,
\* skips and stop signals follow.
C13_OffsetNeverDecreases ==
  [][(pc \notin {"main", "done", "dead"} /\ pc' # "dead")
       => /\ Len(filelist') = Len(filelist)
          /\ \A i \in 1..Len(filelist) :
               filelist'[i].offset >= filelist[i].offset]_vars

\* C13 witness: after a send failure and a reconnect a file is begun again
\* at the offset it had reached
C13_ResumedFile ==
  /\ pc = "read" /\ fails > 0
  /\ filelist[file].offset > 0
  /\ filepos = -filelist[file].offset

(***************************************************************************)
(* edir.c: eopendir() reads all entries of a directory into a list,        *)
(* sortedirentries() sorts the list with a bottom-up merge sort and        *)
(* ereaddir() returns the entries one by one.                              *)
(***************************************************************************)
\* The most entries a directory of the model has
MaxEntries == 4

\* The value of a byte of a name (0 past the end of the string)
Byte(s, i) ==
  IF i > Len(s) THEN 0
  ELSE ("." :> 46 @@ "B" :> 66 @@ "a" :> 97 @@ "b" :> 98 @@ "c" :> 99
          @@ "p" :> 112 @@ "s" :> 115 @@ "t" :> 116)[s[i]]

\* strcmp(): the difference of the first bytes that differ, 0 when none does
RECURSIVE StrCmpFrom(_, _, _)
StrCmpFrom(s, t, i) ==
  IF Byte(s, i) # Byte(t, i) THEN Byte(s, i) - Byte(t, i)
  ELSE IF Byte(s, i) = 0 THEN 0
  ELSE StrCmpFrom(s, t, i + 1)

strcmp(s, t) == StrCmpFrom(s, t, 1)

\* Lines 212-248 with the test of line 227 strict: on a tie e comes from q
RECURSIVE MergeRunsStrict(_, _)
MergeRunsStrict(P, Q) ==
  IF Len(P) = 0 /\ Len(Q) = 0 THEN <<>>
  ELSE IF Len(P) = 0 THEN <<Head(Q)>> \o MergeRunsStrict(P, Tail(Q))
  ELSE IF Len(Q) = 0 THEN <<Head(P)>> \o MergeRunsStrict(Tail(P), Q)
  ELSE IF strcmp(Head(P).name, Head(Q).name) < 0
       THEN <<Head(P)>> \o MergeRunsStrict(Tail(P), Q)
       ELSE <<Head(Q)>> \o MergeRunsStrict(P, Tail(Q))

\* Lines 212-248: the merge of the p list and the q list; e comes from q
\* when p is empty, from p when q is empty or p's first name is lower or
\* the same, else from q
RECURSIVE MergeRuns(_, _)
MergeRuns(P, Q) ==
  IF Len(P) = 0 /\ Len(Q) = 0 THEN <<>>
  ELSE IF Len(P) = 0 THEN <<Head(Q)>> \o MergeRuns(P, Tail(Q))
  ELSE IF Len(Q) = 0 THEN <<Head(P)>> \o MergeRuns(Tail(P), Q)
  ELSE IF strcmp(Head(P).name, Head(Q).name) <= 0
       THEN <<Head(P)>> \o MergeRuns(Tail(P), Q)
       ELSE <<Head(Q)>> \o MergeRuns(P, Tail(Q))

Min(a, b) == IF a <= b THEN a ELSE b

\* Lines 186-254: one pass over the list, merging neighbouring lists of
\* insize entries; nmerges counts the merges of the pass
RECURSIVE MergePass(_, _)
MergePass(list, insize) ==
  IF Len(list) = 0 THEN [list |-> <<>>, nmerges |-> 0]
  ELSE LET psize == Min(insize, Len(list))
           qsize == Min(insize, Len(list) - psize)
           P == SubSeq(list, 1, psize)
           Q == SubSeq(list, psize + 1, psize + qsize)
           r == MergePass(SubSeq(list, psize + qsize + 1, Len(list)), insize)
       IN  [list |-> MergeRuns(P, Q) \o r.list, nmerges |-> 1 + r.nmerges]

\* sortedirentries() for a list that is not empty: passes with insize 1, 2,
\* 4, ... until a pass does at most one merge
RECURSIVE SortFrom(_, _)
SortFrom(list, insize) ==
  LET r == MergePass(list, insize)
  IN  IF r.nmerges <= 1 THEN r.list ELSE SortFrom(r.list, insize * 2)

\* The names of the model's directory entries
DirNames == {<<"a">>, <<"a", "b">>, <<"B">>}

\* What readdir() can return: up to MaxEntries entries, each with a name
\* and its place in readdir()'s order (as its d_ino)
Listings ==
  UNION {{[i \in 1..n |-> [name |-> f[i], ino |-> i]] : f \in [1..n -> DirNames]} :
           n \in 0..MaxEntries}

InitSort ==
  /\ sc = 1
  /\ grown = FALSE
  /\ NoTree
  /\ run = 1
  /\ roots = Scenarios[sc].roots
  /\ pretend = FALSE
  /\ quitonerror = FALSE
  /\ pretended = FALSE
  /\ pc = "none"
  /\ StartMem
  /\ statefile = NoFile
  /\ tmpfile = NoFile
  /\ fails = 0
  /\ wfails = 0
  /\ kills = 0
  /\ maxrate = 0
  /\ stderr = <<>>
  /\ cwd = StartDir
  /\ tm = NoTime
  /\ sent = [r \in Recs(sc) |-> 0]
  /\ savedlist = <<>>
  /\ dirents \in Listings
  /\ edirp = NoEDIR
  /\ sortst = [pc |-> "opendir", insize |-> 0, totalmerges |-> 0]
  /\ yielded = <<>>

\* What the main program holds, untouched by edir.c
program == <<config, now, env, disk, totals, reader, pc, retpc, saveidx, filelist, file,
             stopsig, restart, exitval, attempts, sent, reported, lastfail>>

\* eopendir(), lines 38-88: the entries are linked in readdir()'s order.
\* The EDIR comes from malloc(): with no entry, ents is never set.
eopendir ==
  /\ sortst.pc = "opendir"
  /\ edirp' = [ents |-> dirents, current |-> 0]
  /\ sortst' = [pc |-> "pass", insize |-> 1, totalmerges |-> 0]
  /\ UNCHANGED <<program, dirents, yielded>>

\* sortedirentries(), one turn of the for (;;) loop.  With no entry ents is
\* not initialized and, were it NULL, line 254 writes through the NULL
\* tail: the call crashes or goes on, as the build and the heap have it.
SortPass ==
  /\ sortst.pc = "pass"
  /\ IF Len(edirp.ents) = 0
     THEN /\ \E outcome \in {"crashed", "sorted"} :
               sortst' = [sortst EXCEPT !.pc = outcome]
          /\ edirp' = edirp
     ELSE LET r == MergePass(edirp.ents, sortst.insize)
          IN  /\ sortst' = [pc |-> IF r.nmerges <= 1 THEN "sorted" ELSE "pass",
                            insize |-> IF r.nmerges <= 1 THEN sortst.insize
                                       ELSE sortst.insize * 2,
                            totalmerges |-> sortst.totalmerges + r.nmerges]
              /\ edirp' = [ents |-> r.list,
                           current |-> IF r.nmerges <= 1 THEN 1 ELSE 0]
  /\ UNCHANGED <<program, dirents, yielded>>

\* ereaddir(): the current entry, and current moves to the next one
ereaddir ==
  /\ sortst.pc = "sorted"
  /\ edirp.current \in 1..Len(edirp.ents)
  /\ yielded' = Append(yielded, edirp.ents[edirp.current])
  /\ edirp' = [edirp EXCEPT !.current = IF edirp.current < Len(edirp.ents)
                                        THEN edirp.current + 1 ELSE 0]
  /\ UNCHANGED <<program, dirents, sortst>>

NextSort == eopendir \/ SortPass \/ ereaddir

SpecSort == InitSort /\ [][NextSort]_vars

\* No two entries of the list have the same name
DistinctNames(list) ==
  \A i, j \in 1..Len(list) : list[i].name = list[j].name => i = j

\* The list holds every entry of the other exactly once
IsPermutation(list, other) ==
  /\ Len(list) = Len(other)
  /\ \A i \in 1..Len(other) : \E j \in 1..Len(list) : list[j] = other[i]

\* The names ascend, byte by byte
Ascending(list) ==
  \A i \in 1..(Len(list) - 1) : strcmp(list[i].name, list[i + 1].name) <= 0

\* ereaddir() has returned NULL or would: the enumeration is at its end
Enumerated == sortst.pc = "sorted" /\ edirp.current = 0

\* C14: sort correctness.  For every list of entries with distinct names,
\* of any length from 0 on and in any order, the merge sort comes to an
\* end (it does not crash, and insize stays below twice the length), and
\* the entries ereaddir() returns are the entries readdir() gave, each
\* once, in ascending byte-wise order of name.
C14_SortedPermutation ==
  DistinctNames(dirents)
    => /\ sortst.pc # "crashed"
       /\ sortst.pc = "pass" => (sortst.insize = 1 \/ sortst.insize < 2 * Len(dirents))
       /\ Enumerated => (IsPermutation(yielded, dirents) /\ Ascending(yielded))

\* C15: the sort is stable and idempotent.  Entries with the same name
\* come out in the order readdir() gave them (on a tie the entry of the
\* left list goes first), and a list already in ascending order comes out
\* as it went in.
C15_StableIdempotent ==
  Enumerated
    => /\ \A i, j \in 1..Len(yielded) :
            (i < j /\ yielded[i].name = yielded[j].name)
               => yielded[i].ino < yielded[j].ino
       /\ Ascending(dirents) => yielded = dirents

\* C15 witness: a list with two entries of one name, not in order, was
\* sorted and enumerated
C15_TiesSorted ==
  /\ Enumerated
  /\ ~Ascending(dirents)
  /\ \E i, j \in 1..Len(yielded) : i < j /\ yielded[i].name = yielded[j].name

(***************************************************************************)
(* The input file list built from the command line: processparam() calls   *)
(* addfile() for every file argument, addfile() calls adddir() for a       *)
(* directory, adddir() walks it with eopendir()/ereaddir() and calls       *)
(* itself for sub-directories; list files (@file) are read by              *)
(* addlistfile() once the whole command line has been gone through.        *)
(***************************************************************************)
Dot == <<".">>
DotDot == <<".", ".">>

\* snprintf (filename, ..., "%s/%s", basedir, de->d_name)
Join(basedir, name) == basedir \o <<"/">> \o name

RegularFile == [kind |-> "reg", size |-> RecLen]
Directory(names) == [kind |-> "dir", names |-> {Dot, DotDot} \cup names]
Fifo == [kind |-> "other"]
NoEntry == [kind |-> "none"]

PD == <<"d">>
PDS == Join(PD, <<"s">>)
PDST == Join(PDS, <<"t">>)
PF == <<"f">>
PG == <<"g">>
PL == <<"L">>
PM == <<"m">>
PE == <<"e">>
PES == Join(PE, <<"s">>)

\* The file tree: directory d with files a and B, a fifo p and a directory
\* s; s with a file a and a directory t; t with a file a; beside d the
\* files f and g and the list file L.  No m.  Directory e with a directory
\* s and a file t; e/s with a file t of another size and a name p that
\* stat() does not find (a symbolic link to nowhere).
Tree ==
  (PD :> Directory({<<"a">>, <<"B">>, <<"p">>, <<"s">>})) @@
  (Join(PD, <<"a">>) :> RegularFile) @@
  (Join(PD, <<"B">>) :> RegularFile) @@
  (Join(PD, <<"p">>) :> Fifo) @@
  (PDS :> Directory({<<"a">>, <<"t">>})) @@
  (Join(PDS, <<"a">>) :> RegularFile) @@
  (PDST :> Directory({<<"a">>})) @@
  (Join(PDST, <<"a">>) :> RegularFile) @@
  (PF :> RegularFile) @@ (PG :> RegularFile) @@ (PL :> RegularFile) @@
  (PE :> Directory({<<"s">>, <<"t">>})) @@
  (Join(PE, <<"t">>) :> RegularFile) @@
  (PES :> Directory({<<"p">>, <<"t">>})) @@
  (Join(PES, <<"t">>) :> [kind |-> "reg", size |-> 2 * RecLen])

\* The lines of the list file
ListLines == (PL :> <<PG, PD>>)

\* The directories of the tree
DirPaths == {PD, PDS, PDST}

\* Orders in which readdir() may return the names of a directory
NativeOrders ==
  {<<Dot, DotDot, <<"B">>, <<"a">>, <<"p">>, <<"s">>, <<"t">>>>,
   <<<<"t">>, <<"s">>, <<"p">>, <<"a">>, <<"B">>, DotDot, Dot>>,
   <<<<"s">>, Dot, <<"a">>, <<"t">>, DotDot, <<"p">>, <<"B">>>>}

\* What chdir() and opendir() do with each directory
Accesses == [DirPaths -> {"ok", "noenter", "noread"}]

\* A file argument of the command line, and one given as @file
Arg(name) == [list |-> FALSE, name |-> name]
ListArg(name) == [list |-> TRUE, name |-> name]

\* The file arguments of the command lines of the model
CommandLines ==
  {<<Arg(PD)>>, <<Arg(PF), Arg(PD)>>, <<Arg(PD), Arg(PF)>>,
   <<ListArg(PL), Arg(PF)>>, <<Arg(PF), ListArg(PL)>>,
   <<Arg(PM)>>, <<Arg(PD), Arg(PM)>>, <<Arg(PD \o <<"/">>)>>,
   <<Arg(PF), Arg(Join(PD, <<"p">>))>>, <<Arg(PDS), Arg(PG)>>}

\* The values given with -r (-1 when there is no -r)
RecurValues == {-1, 0, 1, 2, 256}

\* maxrecur is a static char: what a char holds of the long of strtol() (and
\* of the initial -1), where the build makes char signed or unsigned
CharOf(v, schar) == IF schar THEN ((v + 128) % 256) - 128 ELSE v % 256

\* The level adddir() is given: maxrecur, promoted to int
Level(cmd) == CharOf(cmd.maxrecur, cmd.schar)

\* stat()
stat(path) == IF path \in DOMAIN Tree THEN Tree[path] ELSE NoEntry

\* A path name as the process sees it from its working directory
Resolve(dir, name) == IF dir = StartDir THEN name ELSE Join(dir, name)

\* What chdir() and opendir() do with a directory
AccessOf(fs, path) == IF path \in DOMAIN fs.access THEN fs.access[path] ELSE "ok"

\* readdir() until NULL: the names of the directory in the native order,
\* each entry with its place in that order
readdir(fs, path) ==
  LET l == SelectSeq(fs.native, LAMBDA n : n \in Tree[path].names)
  IN  [i \in 1..Len(l) |-> [name |-> l[i], ino |-> i]]

\* addfile(), lines 1191-1222: a new FileLink at the end of the list
AppendLink(list, filename, size) == Append(list, FileLink(filename, size))

\* adddir(), line 1334: recurse up to the limit
Recurse(level, dlevel) == level < 0 \/ dlevel < level

\* adddir(), line 1339: the value of a failed adddir() the caller looks for
NestedFailure == -2

RECURSIVE adddir(_, _, _, _, _, _, _)
RECURSIVE AddEntries(_, _, _, _, _, _, _, _)

\* adddir(), lines 1301-1371: the loop over the entries ereaddir() returns,
\* the process being in directory wd.  "." and ".." are passed over; a name
\* stat() does not find ends the walk with -1, where the process is; a
\* directory is walked when the limit allows and only the value -2 of the
\* nested call ends the walk; what is no regular file is passed over; a
\* regular file is added with the size stat() gave.  After the last entry
\* fchdir (rrootdir) goes back to where the process was at the call.
AddEntries(fs, list, ents, basedir, level, dlevel, wd, rrootdir) ==
  IF Len(ents) = 0 THEN [ret |-> 0, list |-> list, cwd |-> rrootdir]
  ELSE LET de == Head(ents)
           filename == Join(basedir, de.name)
           st == stat(Resolve(wd, de.name))
       IN  IF de.name = Dot \/ de.name = DotDot
           THEN AddEntries(fs, list, Tail(ents), basedir, level, dlevel, wd, rrootdir)
           ELSE IF st.kind = "none"
           THEN [ret |-> -1, list |-> list, cwd |-> wd]
           ELSE IF st.kind = "dir"
           THEN IF Recurse(level, dlevel)
                THEN LET r == adddir(fs, list, de.name, filename, level, dlevel + 1, wd)
                     IN  IF r.ret = NestedFailure
                         THEN [ret |-> -1, list |-> r.list, cwd |-> r.cwd]
                         ELSE AddEntries(fs, r.list, Tail(ents), basedir, level, dlevel,
                                         r.cwd, rrootdir)
                ELSE AddEntries(fs, list, Tail(ents), basedir, level, dlevel, wd, rrootdir)
           ELSE IF st.kind # "reg"
           THEN AddEntries(fs, list, Tail(ents), basedir, level, dlevel, wd, rrootdir)
           ELSE AddEntries(fs, AppendLink(list, filename, st.size), Tail(ents),
                           basedir, level, dlevel, wd, rrootdir)

\* adddir(), lines 1273-1299: -1 when chdir (targetdir) fails, and when
\* eopendir (".") fails after fchdir (rrootdir); else the walk over the
\* sorted entries (the directories of the tree all list "." and "..").
\* dlevel is the static counter of the levels gone down, wd the working
\* directory at the call.
adddir(fs, list, targetdir, basedir, level, dlevel, wd) ==
  LET dir == Resolve(wd, targetdir)
  IN  IF stat(dir).kind # "dir" \/ AccessOf(fs, dir) = "noenter"
      THEN [ret |-> -1, list |-> list, cwd |-> wd]
      ELSE IF AccessOf(fs, dir) = "noread" THEN [ret |-> -1, list |-> list, cwd |-> wd]
      ELSE AddEntries(fs, list, SortFrom(readdir(fs, dir), 1), basedir, level, dlevel,
                      dir, wd)

\* addfile(), lines 1165-1167: a trailing slash is removed
StripSlash(filename) ==
  IF Len(filename) > 0 /\ filename[Len(filename)] = "/"
  THEN SubSeq(filename, 1, Len(filename) - 1) ELSE filename

\* addfile (NULL, filename, NULL): stat(), then adddir() for a directory,
\* a new FileLink for a regular file, -1 for anything else
addfileStat(fs, list, filename, level, wd) ==
  LET name == StripSlash(filename)
      st == stat(Resolve(wd, name))
  IN  IF st.kind = "none" THEN [ret |-> -1, list |-> list, cwd |-> wd]
      ELSE IF st.kind = "dir"
      THEN LET r == adddir(fs, list, name, name, level, 0, wd)
           IN  [ret |-> IF r.ret # 0 THEN -1 ELSE 0, list |-> r.list, cwd |-> r.cwd]
      ELSE IF st.kind = "reg"
      THEN [ret |-> 0, list |-> AppendLink(list, name, st.size), cwd |-> wd]
      ELSE [ret |-> -1, list |-> list, cwd |-> wd]

\* addlistfile(): addfile() for every line, until one fails
RECURSIVE AddLines(_, _, _, _, _)
AddLines(fs, list, lines, level, wd) ==
  IF Len(lines) = 0 THEN [ret |-> 0, list |-> list, cwd |-> wd]
  ELSE LET r == addfileStat(fs, list, Head(lines), level, wd)
       IN  IF r.ret < 0 THEN r ELSE AddLines(fs, r.list, Tail(lines), level, r.cwd)

addlistfile(fs, list, filename, level, wd) ==
  IF filename \notin DOMAIN ListLines THEN [ret |-> -1, list |-> list, cwd |-> wd]
  ELSE AddLines(fs, list, ListLines[filename], level, wd)

\* processparam(), lines 907-922: the list files, in the order given
RECURSIVE AddListFiles(_, _, _, _, _)
AddListFiles(fs, list, listfiles, level, wd) ==
  IF Len(listfiles) = 0 THEN [ret |-> 0, list |-> list, cwd |-> wd]
  ELSE LET r == addlistfile(fs, list, Head(listfiles), level, wd)
       IN  IF r.ret < 0 THEN r
           ELSE AddListFiles(fs, r.list, Tail(listfiles), level, r.cwd)

\* A variant of the argument branch that reads a list file where it is named
AddArgInline(fs, list, listfiles, arg, level, wd) ==
  LET r == IF arg.list THEN addlistfile(fs, list, arg.name, level, wd)
           ELSE addfileStat(fs, list, arg.name, level, wd)
  IN  [ret |-> IF r.ret < 0 THEN -1 ELSE 0, list |-> r.list, listfiles |-> listfiles,
       cwd |-> r.cwd]

\* processparam(), lines 855-881: one file argument. @file only puts the
\* name on the list of list files (addfile() with &listfiles, which for a
\* directory still walks it into the input list); any other argument is
\* an input file or directory
AddArg(fs, list, listfiles, arg, level, wd) ==
  IF arg.list
  THEN LET st == stat(Resolve(wd, StripSlash(arg.name)))
       IN  IF st.kind = "reg"
           THEN [ret |-> 0, list |-> list,
                 listfiles |-> Append(listfiles, StripSlash(arg.name)), cwd |-> wd]
           ELSE IF st.kind = "dir"
           THEN LET r == adddir(fs, list, StripSlash(arg.name), StripSlash(arg.name),
                                level, 0, wd)
                IN  [ret |-> IF r.ret # 0 THEN -1 ELSE 0, list |-> r.list,
                     listfiles |-> listfiles, cwd |-> r.cwd]
           ELSE [ret |-> -1, list |-> list, listfiles |-> listfiles, cwd |-> wd]
  ELSE LET r == addfileStat(fs, list, arg.name, level, wd)
       IN  [ret |-> r.ret, list |-> r.list, listfiles |-> listfiles, cwd |-> r.cwd]

\* processparam(), lines 853-881: the file arguments in command-line order
RECURSIVE AddArgs(_, _, _, _, _, _)
AddArgs(fs, list, listfiles, args, level, wd) ==
  IF Len(args) = 0 THEN [ret |-> 0, list |-> list, listfiles |-> listfiles, cwd |-> wd]
  ELSE LET r == AddArg(fs, list, listfiles, Head(args), level, wd)
       IN  IF r.ret < 0 THEN r
           ELSE AddArgs(fs, r.list, r.listfiles, Tail(args), level, r.cwd)

\* processparam(): the input file list of a command line, or exit (1)
BuildList(fs, cmd) ==
  LET level == Level(cmd)
      a == AddArgs(fs, <<>>, <<>>, cmd.args, level, StartDir)
      l == AddListFiles(fs, a.list, a.listfiles, level, a.cwd)
  IN  IF a.ret < 0 THEN [exit |-> 1, list |-> a.list]
      ELSE IF l.ret < 0 THEN [exit |-> 1, list |-> l.list]
      ELSE IF Len(l.list) = 0 THEN [exit |-> 1, list |-> l.list]
      ELSE [exit |-> 0, list |-> l.list]

InitInventory ==
  /\ sc = 1
  /\ grown = FALSE
  /\ fsys \in [access : Accesses, native : NativeOrders]
  /\ cmdline \in [args : CommandLines, maxrecur : RecurValues, schar : BOOLEAN,
                  optind : {1}, listfiles : {<<>>}]
  /\ NoDirectory
  /\ run = 1
  /\ roots = <<>>
  /\ pretend = FALSE
  /\ quitonerror = FALSE
  /\ pretended = FALSE
  /\ pc = "args"
  /\ StartMem
  /\ statefile = NoFile
  /\ tmpfile = NoFile
  /\ fails = 0
  /\ wfails = 0
  /\ kills = 0
  /\ maxrate = 0
  /\ stderr = <<>>
  /\ cwd = StartDir
  /\ tm = NoTime
  /\ sent = [r \in Recs(sc) |-> 0]
  /\ savedlist = <<>>

\* What the steps of processparam() leave alone
idle == <<sc, run, roots, pretend, quitonerror, pretended, grown, fsys, maxrate, now,
          stderr, tm, dirs, env,
          disk, totals, reader, retpc, saveidx, file, stopsig, restart, attempts,
          sent, reported, lastfail>>

\* processparam(), lines 855-881: the next file argument; exit (1) when
\* addfile() fails
AddArgument ==
  /\ pc = "args"
  /\ cmdline.optind <= Len(cmdline.args)
  /\ LET r == AddArg(fsys, filelist, cmdline.listfiles, cmdline.args[cmdline.optind],
                     Level(cmdline), cwd)
     IN  /\ filelist' = r.list
         /\ cwd' = r.cwd
         /\ cmdline' = [cmdline EXCEPT !.optind = @ + 1, !.listfiles = r.listfiles]
         /\ IF r.ret < 0
            THEN pc' = "done" /\ exitval' = 1
            ELSE pc' = "args" /\ exitval' = exitval
  /\ UNCHANGED idle

\* processparam(): the arguments are all read
ArgumentsRead ==
  /\ pc = "args"
  /\ cmdline.optind > Len(cmdline.args)
  /\ pc' = "lists"
  /\ UNCHANGED <<idle, cwd, cmdline, filelist, exitval>>

\* processparam(), lines 918-934: the next list file; exit (1) when
\* addlistfile() fails
AddListFile ==
  /\ pc = "lists"
  /\ cmdline.listfiles # <<>>
  /\ LET r == addlistfile(fsys, filelist, Head(cmdline.listfiles), Level(cmdline), cwd)
     IN  /\ filelist' = r.list
         /\ cwd' = r.cwd
         /\ cmdline' = [cmdline EXCEPT !.listfiles = Tail(@)]
         /\ IF r.ret < 0
            THEN pc' = "done" /\ exitval' = 1
            ELSE pc' = "lists" /\ exitval' = exitval
  /\ UNCHANGED idle

\* processparam(), lines 948-953: make sure input files were specified
CheckFileList ==
  /\ pc = "lists"
  /\ cmdline.listfiles = <<>>
  /\ IF Len(filelist) = 0
     THEN pc' = "done" /\ exitval' = 1
     ELSE pc' = "built" /\ exitval' = exitval
  /\ UNCHANGED <<idle, cwd, cmdline, filelist>>

NextInventory ==
  \/ AddArgument
  \/ ArgumentsRead
  \/ AddListFile
  \/ CheckFileList

SpecInventory == InitInventory /\ [][NextInventory]_vars

(***************************************************************************)
(* The command lines that walk directory e, where stat() fails on a name   *)
(* of the sub-directory s.                                                 *)
(***************************************************************************)
ChdirCommandLines ==
  {<<Arg(PE)>>, <<Arg(PE), Arg(PF)>>, <<ListArg(PL), Arg(PE)>>, <<Arg(PES)>>,
   <<Arg(PD)>>}

InitChdir ==
  /\ sc = 1
  /\ grown = FALSE
  /\ fsys \in [access : Accesses, native : NativeOrders]
  /\ cmdline \in [args : ChdirCommandLines, maxrecur : RecurValues, schar : BOOLEAN,
                  optind : {1}, listfiles : {<<>>}]
  /\ NoDirectory
  /\ run = 1
  /\ roots = <<>>
  /\ pretend = FALSE
  /\ quitonerror = FALSE
  /\ pretended = FALSE
  /\ pc = "args"
  /\ StartMem
  /\ statefile = NoFile
  /\ tmpfile = NoFile
  /\ fails = 0
  /\ wfails = 0
  /\ kills = 0
  /\ maxrate = 0
  /\ stderr = <<>>
  /\ cwd = StartDir
  /\ tm = NoTime
  /\ sent = [r \in Recs(sc) |-> 0]
  /\ savedlist = <<>>

SpecChdir == InitChdir /\ [][NextInventory]_vars

\* The paths of an input file list, in list order
PathsOf(list) == [i \in 1..Len(list) |-> list[i].name]

\* The names of a set in ascending byte order
RECURSIVE InNameOrder(_)
InNameOrder(names) ==
  IF names = {} THEN <<>>
  ELSE LET least == CHOOSE n \in names : \A m \in names : strcmp(n, m) <= 0
       IN  <<least>> \o InNameOrder(names \ {least})

RECURSIVE WalkOf(_, _, _, _)
RECURSIVE EntriesOf(_, _, _, _, _)

\* What the entries of a directory contribute, taken in the order given
EntriesOf(names, dir, access, level, depth) ==
  IF Len(names) = 0 THEN <<>>
  ELSE LET path == Join(dir, Head(names))
           here == IF stat(path).kind = "reg" THEN <<path>>
                   ELSE IF stat(path).kind = "dir" /\ Recurse(level, depth)
                        THEN WalkOf(path, access, level, depth + 1)
                        ELSE <<>>
       IN  here \o EntriesOf(Tail(names), dir, access, level, depth)

\* What a directory the walk goes down into contributes
WalkOf(dir, access, level, depth) ==
  IF access[dir] # "ok" THEN <<>>
  ELSE EntriesOf(InNameOrder(Tree[dir].names \ {Dot, DotDot}), dir, access, level, depth)

\* What one root contributes
RootOf(name, access, level) ==
  LET path == StripSlash(name)
  IN  IF stat(path).kind = "reg" THEN <<path>>
      ELSE IF stat(path).kind = "dir" THEN WalkOf(path, access, level, 0)
      ELSE <<>>

RECURSIVE RootsOf(_, _, _)
RootsOf(names, access, level) ==
  IF Len(names) = 0 THEN <<>>
  ELSE RootOf(Head(names), access, level) \o RootsOf(Tail(names), access, level)

\* The roots of a command line with every list file replaced, where it is
\* named, by its lines
RECURSIVE RootsInline(_)
RootsInline(args) ==
  IF Len(args) = 0 THEN <<>>
  ELSE (IF Head(args).list THEN ListLines[Head(args).name] ELSE <<Head(args).name>>)
       \o RootsInline(Tail(args))

\* The explicit roots of a command line, then the lines of its list files
RECURSIVE ExplicitRoots(_)
ExplicitRoots(args) ==
  IF Len(args) = 0 THEN <<>>
  ELSE (IF Head(args).list THEN <<>> ELSE <<Head(args).name>>)
       \o ExplicitRoots(Tail(args))

RECURSIVE ListedRoots(_)
ListedRoots(args) ==
  IF Len(args) = 0 THEN <<>>
  ELSE (IF Head(args).list THEN ListLines[Head(args).name] ELSE <<>>)
       \o ListedRoots(Tail(args))

\* The input file list is built and the transfer may start
Built == pc = "built"

AllAccessible == \A d \in DirPaths : fsys.access[d] = "ok"

\* path lies below the directory root
Below(root, path) ==
  /\ Len(path) > Len(root) + 1
  /\ SubSeq(path, 1, Len(root) + 1) = root \o <<"/">>

\* The directory levels between a root directory and a path below it
DepthBelow(root, path) ==
  Cardinality({i \in Len(root) + 2 .. Len(path) : path[i] = "/"})

\* The explicit directory roots of the command line
DirectoryRoots ==
  {StripSlash(cmdline.args[i].name) : i \in {j \in 1..Len(cmdline.args) :
      /\ ~cmdline.args[j].list
      /\ stat(StripSlash(cmdline.args[j].name)).kind = "dir"}}

\* The regular files of the tree
RegularFiles == {p \in DOMAIN Tree : Tree[p].kind = "reg"}

\* Every root of the command line is a regular file or a directory
RootsExist ==
  \A i \in 1..Len(cmdline.args) :
    stat(StripSlash(cmdline.args[i].name)).kind \in {"reg", "dir"}

Included(path) == \E i \in 1..Len(filelist) : filelist[i].name = path

\* C17: with every directory accessible, a regular file d levels below a
\* root directory is in the inventory exactly when the limit L given with
\* -r is negative or d <= L, and entries that are neither regular files nor
\* directories do not fail the construction.
C17_DepthLimit ==
  (pc \in {"built", "done"} /\ AllAccessible /\ RootsExist) =>
    /\ Built
    /\ \A root \in DirectoryRoots : \A path \in RegularFiles :
         Below(root, path) =>
           (Included(path) <=>
              (cmdline.maxrecur < 0 \/ DepthBelow(root, path) <= cmdline.maxrecur))

\* The roots of the command line: the explicit ones and the lines of the
\* list files
AllRoots ==
  LET rts == ExplicitRoots(cmdline.args) \o ListedRoots(cmdline.args)
  IN  {StripSlash(rts[i]) : i \in 1..Len(rts)}

\* The walk from the directory root comes to the directory d: d is the
\* root, or lies below it within the limit with every directory on the way
\* to it entered and read
WalkReaches(root, d) ==
  \/ d = root
  \/ /\ Below(root, d)
     /\ Recurse(Level(cmdline), DepthBelow(root, d))
     /\ \A e \in DirPaths :
          ((e = root \/ Below(root, e)) /\ Below(e, d)) => fsys.access[e] = "ok"

\* A root does not exist, or a directory the walk comes to cannot be
\* entered or opened
AccessError ==
  \/ \E r \in AllRoots : stat(r).kind = "none"
  \/ \E r \in AllRoots : \E d \in DirPaths :
       /\ stat(r).kind = "dir"
       /\ WalkReaches(r, d)
       /\ fsys.access[d] # "ok"

\* C18: when a root does not exist, or a directory reached at any depth of
\* the walk cannot be entered or opened, the construction fails and no
\* transfer starts with the partial inventory.
C18_AllOrNothing == (pc \in {"built", "done"} /\ AccessError) => ~Built

\* C19: after a connect or send failure (the scan loop is left with no stop
\* signal) the session, with quit-on-error unset, goes back to connect
\* again after the reconnect delay and, with quit-on-error set, ends the
\* run, and that run ends with an exit status that is not zero.
C19_RetryPolicy ==
  [][/\ (pc = "retry" /\ ~stopsig /\ pc' \in {"scan", "end"}) =>
          pc' = (IF quitonerror THEN "end" ELSE "scan")
     /\ (pc = "final" /\ pc' = "done" /\ quitonerror /\ ~stopsig) =>
          exitval' # 0]_vars

\* No record of the file was ever sent
NothingSentOf(name) == \A r \in Recs(sc) : r[1] = name => sent[r] = 0

\* The read loop of the current file ended with ms_readmsr() reporting that
\* the file holds no Mini-SEED, before any record of it was sent
NotSeedAtStart ==
  /\ pc = "eof"
  /\ ~stopsig
  /\ retcode = MS_NOTSEED
  /\ filelist[file].bytecount = 0
  /\ NothingSentOf(filelist[file].name)

\* C20: a file the reader reports as not being in the expected format, no
\* record of it sent, is marked consumed by its offset being set to its
\* size; nothing of it is sent, the exit status is left as it is and the
\* session goes on to the next file (with the offset at the size the file is
\* passed over by every later scan of the list).
C20_SkipNotSeed ==
  [][(NotSeedAtStart /\ pc' \in {"save_open", "advance", "retry"}) =>
       /\ filelist'[file].offset = filelist'[file].size
       /\ NothingSentOf(filelist[file].name)'
       /\ exitval' = exitval
       /\ pc' \in {"save_open", "advance"}]_vars

\* Progress was made in the current file: a record of it was sent, or its
\* entry holds an offset above 0 (restored, or set before a reconnect)
ProgressMade ==
  \/ filelist[file].offset > 0
  \/ ~NothingSentOf(filelist[file].name)

\* The read loop of the current file ended with an error of ms_readmsr()
ReaderError ==
  /\ pc = "eof"
  /\ ~stopsig
  /\ ~restart
  /\ retcode \in {MS_NOTSEED, MS_GENERROR}

\* C21: when the reader reports an error (MS_NOTSEED included) for a file
\* in which progress was made, the session stops with exit status 1 and
\* the entry of the file is left as it is, neither skipped nor complete.
C21_ErrorAfterProgress ==
  [][(ReaderError /\ ProgressMade /\ pc' \notin {"eof", "dead"}) =>
       /\ exitval' = 1
       /\ stopsig'
       /\ filelist'[file] = filelist[file]]_vars

\* C23: every way the session ends, once processparam() has returned, goes
\* through the final savestate() of main, after the last update of an
\* offset, and the committed state file is then the snapshot of the file
\* list in memory.
C23_FinalSave ==
  [][(pc # "main" /\ pc # "done" /\ pc' = "done") =>
       /\ pc = "final"
       /\ retpc = "final"
       /\ IsSnapshot(statefile', filelist')]_vars

\* The current file is complete: its offset is its size, or it was skipped
\* as holding no Mini-SEED
FileCompleted(f, rc) == f.offset = f.size \/ IsSkip(f, rc)

\* C24: savestate() is begun only at two kinds of points: after the read
\* loop of a file that is then complete (offset = size, or skipped), and at
\* the end of main; never with the current file sent in part only, never
\* per record.
C24_SavePoints ==
  [][(pc # "save_open" /\ pc' = "save_open") =>
       \/ pc = "end" /\ retpc' = "final"
       \/ /\ pc = "eof" /\ retpc' = "advance"
          /\ FileCompleted(filelist[file], retcode)]_vars

\* The state recovered shows every input file sent in full
AllOffsetsAtSize == \A i \in 1..Len(filelist) : filelist[i].offset = filelist[i].size

\* C26: when the restored state shows every input file sent in full
\* (offset = size for every entry), the execution is recognised as "all
\* data already sent": it returns 0 from the check of lines 152-170, with
\* no record sent and no connection to the server needed.
C26_AllSentShortcut ==
  [][(pc = "shortcut" /\ recovery = 1 /\ AllOffsetsAtSize /\ pc' \notin {"shortcut", "dead"}) =>
       /\ pc' = "done"
       /\ exitval' = 0
       /\ sent' = sent
       /\ attempts' = 0]_vars

\* C27: a record the selections reject is not sent and changes no
\* accounting: the entry of the file (offset, bytecount, recordcount) and
\* the session totals are after the rejection what they were before it,
\* and the read loop goes on to the next record.
C27_RejectNoAccounting ==
  [][(pc = "record" /\ msr.kind = "rej" /\ pc' \notin {"record", "dead"}) =>
       /\ filelist' = filelist
       /\ totalbytes' = totalbytes
       /\ totalrecords' = totalrecords
       /\ totalfiles' = totalfiles
       /\ sent' = sent
       /\ pc' = "read"]_vars

\* C27 witness: the record rejected lies behind, nothing accounted for it,
\* and the next record of the file was read and sent
C27_RejectedThenSent ==
  /\ pc = "read"
  /\ ~pretend
  /\ file > 0
  /\ Disk[filelist[file].name] = <<"rej", "rec">>
  /\ filelist[file].offset = 2 * RecLen
  /\ filelist[file].bytecount = RecLen
  /\ filelist[file].recordcount = 1
  /\ sent[<<filelist[file].name, 0>>] = 0
  /\ sent[<<filelist[file].name, RecLen>>] = 1

\* main() is behind the scan loop: the final save and the end
AfterScan == pc \in {"end", "final"} \/ (pc \in {"save_open", "save_write"} /\ retpc = "final")

\* C29: when, after dl_connect() succeeded, the server grants no write
\* permission, the scan loop is left at once with the exit status 1, for
\* either setting of quit-on-error; from there to the end of the process
\* no record is sent, dl_connect() is not called again and the exit
\* status stays 1.
C29_NoWritePermission ==
  [][/\ (pc = "scan" /\ ~stopsig /\ pc' = "end") =>
          (exitval' = 1 /\ stopsig' /\ sent' = sent /\ filelist' = filelist)
     /\ (AfterScan /\ pc' # "dead") =>
          /\ AfterScan' \/ pc' = "done"
          /\ sent' = sent
          /\ attempts' = attempts
          /\ exitval' = exitval]_vars

\* C29 witness: the process has ended with status 1 after its one
\* dl_connect(), no file opened and no record sent, quit-on-error unset
C29_RefusedAndEnded ==
  /\ pc = "done"
  /\ run = 1
  /\ ~quitonerror
  /\ ~signalled
  /\ exitval = 1
  /\ attempts = 1
  /\ totalfiles = 0
  /\ \A r \in Recs(sc) : sent[r] = 0

\* C22: once the stop signal is set, wherever main() is, it stays set, no
\* further record is read (at most the record already in msr is sent),
\* dl_connect() is not called again, also when the signal comes in the
\* reconnect sleep, and the process comes to its end.
C22_StopSignal ==
  /\ [][stopsig =>
          /\ stopsig'
          /\ msr' \in {msr, NoRecord}
          /\ \A r \in Recs(sc) : sent'[r] # sent[r] => (pc = "record" /\ r = CurrentRec)
          /\ attempts' = attempts]_vars
  /\ (stopsig ~> pc = "done")

\* C22 witness: the process has ended after a signal that came in the
\* reconnect sleep: one dl_connect() only, and records left unsent
C22_StoppedInSleep ==
  /\ pc = "done"
  /\ signalled
  /\ ~quitonerror
  /\ ~pretend
  /\ attempts = 1
  /\ lastfail # NoRec
  /\ exitval = 0
  /\ \E r \in Recs(sc) : sent[r] = 0 /\ Disk[r[1]][(r[2] \div RecLen) + 1] = "rec"

\* No file of the scenario is corrupt: none has a place where reading
\* fails, and none has bytes that are no record beside records
NoCorruptFile ==
  \A n \in DOMAIN Disk :
    /\ \A i \in 1..Len(Disk[n]) : Disk[n][i] # "bad"
    /\ (\E i \in 1..Len(Disk[n]) : Disk[n][i] = "junk")
          => (\A i \in 1..Len(Disk[n]) : Disk[n][i] = "junk")

\* C30: with quit-on-error unset, no stop signal and no corrupt file,
\* dl_connect() and dl_write() succeeding in the end, the execution ends,
\* and when it ends with status 0 every entry has offset = size, also
\* with records the selections reject and with files skipped as holding
\* no Mini-SEED.
C30_EventuallyAllSent ==
  (~quitonerror /\ ~pretend /\ NoCorruptFile) =>
     ([]~signalled => <>(pc = "done" /\ (exitval = 0 => AllOffsetsAtSize)))

\* C25: with a maximum rate of maxrate bits per second, at the moment a
\* record is sent the bits sent since the start of the session, this
\* record included, divided by the time since the start of the session,
\* do not exceed maxrate, whatever the sleep that takes: one second or
\* more as well.
C25_ThrottleBound ==
  [][(maxrate # 0 /\ totalbytes' > totalbytes)
        => totalbytes' * 8 * TicksPerSecond <= maxrate * now']_vars

\* C28: the signal handlers only set a flag, so that no status dump reads
\* the file list between the offset update and the counter updates of one
\* send, and none is made by a handler while main() is at work on the list.
C28_HandlersOnlySetFlag ==
  [][Len(stderr') > Len(stderr) => pc # "counts"]_vars

\* C31: once the input file list is built the names and sizes of its
\* entries never change: recoverstate() leaves them as addfile() made them,
\* also when the size of the state file differs, and applies the saved
\* offset; and every step of main() after that changes no entry but the
\* current one.
C31_EntriesFrame ==
  [][/\ (pc = "main" /\ pc' = "shortcut") =>
           LET built == addfile(roots, Disk)
           IN  /\ Len(filelist') = Len(built)
               /\ \A i \in 1..Len(built) :
                    /\ filelist'[i].name = built[i].name
                    /\ filelist'[i].size = built[i].size
     /\ (pc # "main" /\ pc' \notin {"main", "dead"}) =>
           /\ Len(filelist') = Len(filelist)
           /\ \A i \in 1..Len(filelist) :
                /\ filelist'[i].name = filelist[i].name
                /\ filelist'[i].size = filelist[i].size
                /\ i # file => filelist'[i] = filelist[i]]_vars

\* An entry was restored at the saved offset although the saved size is
\* not the size of the file, and a record of it was sent after that
C31_ResumedDespiteSize ==
  /\ pc = "read"
  /\ recovery = 1
  /\ file \in 1..Len(filelist)
  /\ filelist[file].offset > filelist[file].bytecount
  /\ filelist[file].bytecount > 0
  /\ \E j \in 1..Len(savedlist) :
       /\ savedlist[j].name = filelist[file].name
       /\ savedlist[j].size # filelist[file].size

\* The byte at which the next ms_readmsr() starts to read
ReadStart == IF filepos < 0 THEN -filepos ELSE IF msfp.open THEN msfp.pos ELSE 0

\* C32: the first ms_readmsr() of a file starts at the offset of that
\* file's entry: at byte 0 when the offset is 0, whatever position was
\* asked for the file read before, at byte k when the offset is k > 0.
C32_ReadFromOwnOffset ==
  [][(pc = "read" /\ ~stopsig /\ ~msfp.open /\ pc' \in {"record", "eof"})
        => ReadStart = filelist[file].offset]_vars

\* C33: an execution with -p sends no record, and the state it saves has
\* no offset beyond the one the entry had when the execution began (0 in
\* a first execution, which finds no state file).
C33_PretendLeavesNoTrace ==
  [][pretend =>
       /\ sent' = sent
       /\ (run = 1 /\ statefile' # statefile) =>
             \A i \in 1..Len(filelist) : filelist[i].offset = 0]_vars

\* C34: savestate() commits no incomplete snapshot: when it ends with a
\* temporary file that does not hold the line of every entry (a write to
\* it failed), the state file is left as it was.
C34_NoPartialCommit ==
  [][(pc = "save_write" /\ pc' \notin {"save_write", "dead"}
        /\ ~IsSnapshot(tmpfile, filelist))
       => statefile' = statefile]_vars

\* C35: the count of files sent of an execution counts each entry of the
\* input file list once at most: it never exceeds the number of entries.
C35_FilesCountedOnce ==
  pc \notin {"main", "dead"} => totalfiles <= Len(filelist)

\* C36: adddir() leaves the working directory of the process as it found
\* it on every return, with or without error, so that every entry of the
\* input file list has the size of the file of its own path.
C36_WorkingDirectoryKept ==
  [][(pc \in {"args", "lists"}) =>
       /\ cwd' = cwd
       /\ \A i \in 1..Len(filelist') :
            /\ stat(filelist'[i].name).kind = "reg"
            /\ stat(filelist'[i].name).size = filelist'[i].size]_vars

\* The input file list names a path more than once
HasDuplicates(flist) ==
  \E i, j \in 1..Len(flist) : i # j /\ flist[i].name = flist[j].name

\* C37: with a path more than once in the input file list, the list built
\* anew over the same command line and recovered from the state file has,
\* at each position, the offset and counts the entry at that position had
\* when the state was saved.
C37_DuplicatesByPosition ==
  [][(/\ pc = "main" /\ pc' = "shortcut"
      /\ wfails = 0 /\ roots = Scenarios[sc].roots
      /\ Len(savedlist) = Len(roots) /\ HasDuplicates(savedlist))
       => \A i \in 1..Len(savedlist) :
            /\ filelist'[i].offset = savedlist[i].offset
            /\ filelist'[i].bytecount = savedlist[i].bytecount
            /\ filelist'[i].recordcount = savedlist[i].recordcount]_vars

\* C38: a directory for which readdir() returns no entry is the case of
\* the empty list: sortedirentries() ends without a crash, eopendir()
\* returns the stream, and ereaddir() returns no entry of it.
C38_EmptyDirectory ==
  Len(dirents) = 0
    => /\ sortst.pc # "crashed"
       /\ sortst.pc = "sorted" => (edirp.current = 0 /\ yielded = <<>>)


\* ---------------------------------------------------------------------
\* libdali/timeutils.c: day-of-year conversions and dl_time2dltime()
\* ---------------------------------------------------------------------

\* The high-precision ticks in a second (libdali.h)
DLTMODULUS == 1000000

\* The largest int32_t, the type of the arithmetic of dl_time2dltime_int()
INT32_MAX == 2147483647

\* static int days[] of dl_doy2md() and dl_md2doy()
days == <<31, 28, 31, 30, 31, 30, 31, 31, 30, 31, 30, 31>>

\* leap = ((year%4 == 0) && (year%100 != 0)) || (year%400 == 0)
Leap(year) == IF (year % 4 = 0 /\ year % 100 # 0) \/ year % 400 = 0 THEN 1 ELSE 0

\* days[] after "if (leap) days[1]++"
DaysOf(year) == [days EXCEPT ![2] = @ + Leap(year)]

\* The loop of dl_doy2md(): jday -= days[idx] until jday <= 0; when no
\* index ends it, *month and *mday keep what the caller had in them
RECURSIVE Doy2mdLoop(_, _, _)
Doy2mdLoop(d, idx, jday) ==
  IF idx > 12 THEN [month |-> 0, mday |-> 0]
  ELSE IF jday - d[idx] <= 0 THEN [month |-> idx, mday |-> d[idx] + (jday - d[idx])]
  ELSE Doy2mdLoop(d, idx + 1, jday - d[idx])

dl_doy2md(year, jday) ==
  IF year < 1900 \/ year > 2100 THEN [ret |-> -1, month |-> 0, mday |-> 0]
  ELSE IF jday > 365 + Leap(year) \/ jday <= 0 THEN [ret |-> -1, month |-> 0, mday |-> 0]
  ELSE LET r == Doy2mdLoop(DaysOf(year), 1, jday)
       IN  [ret |-> 0, month |-> r.month, mday |-> r.mday]

\* The loop of dl_md2doy(): the days of the months before month, plus mday
RECURSIVE Md2doyLoop(_, _, _, _)
Md2doyLoop(d, idx, month, mday) ==
  IF idx > 12 THEN 0
  ELSE IF idx = month THEN mday
  ELSE d[idx] + Md2doyLoop(d, idx + 1, month, mday)

\* dl_md2doy() with the February of every year 28 days long
dl_md2doyNoLeap(year, month, mday) ==
  IF year < 1900 \/ year > 2100 THEN [ret |-> -1, jday |-> 0]
  ELSE IF month < 1 \/ month > 12 THEN [ret |-> -1, jday |-> 0]
  ELSE IF mday < 1 \/ mday > 31 THEN [ret |-> -1, jday |-> 0]
  ELSE IF mday > days[month] THEN [ret |-> -1, jday |-> 0]
  ELSE [ret |-> 0, jday |-> Md2doyLoop(days, 1, month, mday)]

dl_md2doy(year, month, mday) ==
  IF year < 1900 \/ year > 2100 THEN [ret |-> -1, jday |-> 0]
  ELSE IF month < 1 \/ month > 12 THEN [ret |-> -1, jday |-> 0]
  ELSE IF mday < 1 \/ mday > 31 THEN [ret |-> -1, jday |-> 0]
  ELSE IF mday > DaysOf(year)[month] THEN [ret |-> -1, jday |-> 0]
  ELSE [ret |-> 0, jday |-> Md2doyLoop(DaysOf(year), 1, month, mday)]

\* x >> n of a two's complement int: the floor of x / 2^n
Shr(x, n) == x \div (2 ^ n)

\* C's x / y and x % y for y > 0: truncation toward zero
CDiv(x, y) == IF x >= 0 THEN x \div y ELSE -((-x) \div y)
CMod(x, y) == x - y * CDiv(x, y)

\* The int32_t "days" of dl_time2dltime_int(): the days from 1970-01-01 to
\* the day of the arguments
EpochDays(year, day) ==
  LET shortyear == year - 1900
      a4        == Shr(shortyear, 2) + 475 - (IF shortyear % 4 = 0 THEN 1 ELSE 0)
      a100      == CDiv(a4, 25) - (IF CMod(a4, 25) < 0 THEN 1 ELSE 0)
      a400      == Shr(a100, 2)
      intervening_leap_days == (a4 - 492) - (a100 - 19) + (a400 - 4)
  IN  365 * (shortyear - 70) + intervening_leap_days + (day - 1)

\* The int32_t value 60 * (24 * days + hour) + min: the minutes since the epoch
EpochMinutes(year, day, hour, min) == 60 * (24 * EpochDays(year, day) + hour) + min

\* Whether 60 * minutes + sec stays an int32_t, product and sum
FitsInt32(minutes, sec) ==
  /\ minutes >= -(INT32_MAX \div 60)
  /\ minutes <= INT32_MAX \div 60
  /\ minutes = INT32_MAX \div 60 => sec <= INT32_MAX % 60

\* 60 * minutes + sec reduced modulo 2^32 into the int32_t range, for a
\* value that left it; 2^32 is 60 * (2 * (INT32_MAX \div 60)) + 2 * (INT32_MAX % 60) + 2
Wrap32(minutes, sec) ==
  LET wm == 2 * (INT32_MAX \div 60)
      ws == 2 * (INT32_MAX % 60) + 2
  IN  IF minutes > 0 THEN 60 * (minutes - wm) + (sec - ws)
      ELSE IF minutes = -(INT32_MAX \div 60) - 1 /\ sec >= 59 - (INT32_MAX % 60)
           THEN 60 * (minutes + 1) + (sec - 60)
      ELSE 60 * (minutes + wm) + (sec + ws)

\* What dl_time2dltime_int() can return: sec * DLTMODULUS + ticks, kept as
\* the pair.  The seconds are an int expression, cast to dltime_t after it
\* is evaluated; when it overflows the behaviour is undefined: the builds
\* either wrap the value or trap
dl_time2dltime_int(year, day, hour, min, sec, usec) ==
  LET minutes == EpochMinutes(year, day, hour, min)
      ticks   == usec * (1000000 \div DLTMODULUS)
  IN  IF FitsInt32(minutes, sec)
      THEN {[err |-> "none", sec |-> 60 * minutes + sec, ticks |-> ticks]}
      ELSE {[err |-> "none", sec |-> Wrap32(minutes, sec), ticks |-> ticks],
            [err |-> "trap", sec |-> 0, ticks |-> 0]}

DLTERROR == {[err |-> "DLTERROR", sec |-> 0, ticks |-> 0]}

dl_time2dltime(year, day, hour, min, sec, usec) ==
  IF year < 1900 \/ year > 2100 THEN DLTERROR
  ELSE IF day < 1 \/ day > 366 THEN DLTERROR
  ELSE IF hour < 0 \/ hour > 23 THEN DLTERROR
  ELSE IF min < 0 \/ min > 59 THEN DLTERROR
  ELSE IF sec < 0 \/ sec > 60 THEN DLTERROR
  ELSE IF usec < 0 \/ usec > 999999 THEN DLTERROR
  ELSE dl_time2dltime_int(year, day, hour, min, sec, usec)

\* The arguments the calls are made with
Years == 1899..2101
Jdays == 0..367
TimeDays == {0, 1, 19, 20, 347, 348, 366, 367}
Hours == {0, 3, 20, 23, 24}
Minutes == {0, 14, 45, 59}
Seconds == {0, 7, 8, 51, 52, 60}
Usecs == {0, 999999}

NoResult == [err |-> "none", sec |-> 0, ticks |-> 0]

TimeCall(op, year, day, hour, min, sec, usec) ==
  [op |-> op, pc |-> "call", year |-> year, day |-> day, hour |-> hour,
   min |-> min, sec |-> sec, usec |-> usec, ret |-> 0, month |-> 0,
   mday |-> 0, jday |-> 0, ret2 |-> 0, dltime |-> NoResult]

InitTime ==
  /\ sc = 1
  /\ grown = FALSE
  /\ NoTree
  /\ run = 1
  /\ roots = Scenarios[sc].roots
  /\ pretend = FALSE
  /\ quitonerror = FALSE
  /\ pretended = FALSE
  /\ pc = "none"
  /\ StartMem
  /\ statefile = NoFile
  /\ tmpfile = NoFile
  /\ fails = 0
  /\ wfails = 0
  /\ kills = 0
  /\ maxrate = 0
  /\ stderr = <<>>
  /\ cwd = StartDir
  /\ sent = [r \in Recs(sc) |-> 0]
  /\ savedlist = <<>>
  /\ dirents = <<>>
  /\ edirp = NoEDIR
  /\ sortst = [pc |-> "opendir", insize |-> 0, totalmerges |-> 0]
  /\ yielded = <<>>
  /\ \/ \E year \in Years, jday \in Jdays :
          tm = TimeCall("doy", year, jday, 0, 0, 0, 0)
     \/ \E year \in Years, day \in TimeDays, hour \in Hours, min \in Minutes,
           sec \in Seconds, usec \in Usecs :
          tm = TimeCall("time", year, day, hour, min, sec, usec)

\* Everything but tm
untimed == <<sc, run, roots, pretend, quitonerror, pc, retpc, saveidx, filelist, file,
             stopsig, restart, exitval, retcode, filepos, msfp, msr, totalbytes,
             totalrecords, totalfiles, statefile, tmpfile, fails, wfails, kills,
             attempts, sent, reported, savedlist, lastfail, signalled, pretended,
             recovery, grown, dirents, edirp, sortst, yielded, fsys, cmdline,
             maxrate, now, stderr, cwd>>

\* A call of dl_doy2md(year, jday, &month, &mday)
Doy2md ==
  /\ tm.op = "doy"
  /\ tm.pc = "call"
  /\ LET r == dl_doy2md(tm.year, tm.day)
     IN  tm' = [tm EXCEPT !.pc = "converted", !.ret = r.ret, !.month = r.month,
                          !.mday = r.mday]
  /\ UNCHANGED untimed

\* A call of dl_md2doy(year, month, mday, &jday) with what dl_doy2md() gave
Md2doy ==
  /\ tm.op = "doy"
  /\ tm.pc = "converted"
  /\ tm.ret = 0
  /\ LET r == dl_md2doy(tm.year, tm.month, tm.mday)
     IN  tm' = [tm EXCEPT !.pc = "done", !.ret2 = r.ret, !.jday = r.jday]
  /\ UNCHANGED untimed

\* A call of dl_time2dltime(year, day, hour, min, sec, usec)
Time2dltime ==
  /\ tm.op = "time"
  /\ tm.pc = "call"
  /\ \E t \in dl_time2dltime(tm.year, tm.day, tm.hour, tm.min, tm.sec, tm.usec) :
       tm' = [tm EXCEPT !.pc = "done", !.dltime = t]
  /\ UNCHANGED untimed

NextTime ==
  \/ Doy2md
  \/ Md2doy
  \/ Time2dltime

SpecTime == InitTime /\ [][NextTime]_vars

\* The length of a year in days, by the Gregorian rule
YearLength(year) ==
  IF year % 400 = 0 THEN 366
  ELSE IF year % 100 = 0 THEN 365
  ELSE IF year % 4 = 0 THEN 366
  ELSE 365

\* The leap years of the Gregorian calendar up to and with a year
LeapYearsTo(year) == year \div 4 - year \div 100 + year \div 400

\* The whole days from 1970-01-01 to the first day of a year
DaysToYear(year) == 365 * (year - 1970) + LeapYearsTo(year - 1) - LeapYearsTo(1969)

\* The arguments dl_time2dltime() accepts
TimeInRange ==
  /\ tm.year \in 1900..2100
  /\ tm.day \in 1..366
  /\ tm.hour \in 0..23
  /\ tm.min \in 0..59
  /\ tm.sec \in 0..60
  /\ tm.usec \in 0..999999

\* C39: for arguments in range dl_time2dltime() returns
\* (((D * 24 + hour) * 60 + min) * 60 + sec) * DLTMODULUS + usec * (1000000 / DLTMODULUS),
\* D the whole days from 1970-01-01 to day-of-year day of year, with no
\* wrap-around of the 32-bit arithmetic, after January 2038 and before
\* December 1901 as well.  The result is sec * DLTMODULUS + ticks and the
\* seconds of the formula are 60 * m + tm.sec, m the minutes of the formula.
C39_ExactTime ==
  (tm.op = "time" /\ tm.pc = "done" /\ TimeInRange) =>
     LET m == ((DaysToYear(tm.year) + (tm.day - 1)) * 24 + tm.hour) * 60 + tm.min
     IN  /\ tm.dltime.err = "none"
         /\ (tm.dltime.sec - tm.sec) % 60 = 0
         /\ (tm.dltime.sec - tm.sec) \div 60 = m
         /\ tm.dltime.ticks = tm.usec * (1000000 \div DLTMODULUS)

\* The day arithmetic of dl_time2dltime_int() counts the days of the formula
C39_DaysExact ==
  (tm.op = "time" /\ tm.pc = "done" /\ TimeInRange) =>
     EpochDays(tm.year, tm.day) = DaysToYear(tm.year) + (tm.day - 1)

\* C40: for year in 1900..2100 and jday in 1..365 (1..366 in leap years)
\* dl_doy2md() returns 0 with month in 1..12 and mday in 1..31, and
\* dl_md2doy() of that month and day returns 0 and gives jday back.
C40_DoyRoundTrip ==
  /\ (/\ tm.op = "doy"
      /\ tm.pc \in {"converted", "done"}
      /\ tm.year \in 1900..2100
      /\ tm.day \in 1..(YearLength(tm.year))) =>
        /\ tm.ret = 0
        /\ tm.month \in 1..12
        /\ tm.mday \in 1..31
  /\ (/\ tm.op = "doy"
      /\ tm.pc = "done"
      /\ tm.year \in 1900..2100
      /\ tm.day \in 1..(YearLength(tm.year))) =>
        /\ tm.ret2 = 0
        /\ tm.jday = tm.day

\* Day 366 of the leap year 2000 went to December 31 and back
C40_LeapDayRoundTrip ==
  /\ tm.op = "doy"
  /\ tm.pc = "done"
  /\ tm.year = 2000
  /\ tm.day = 366
  /\ tm.month = 12
  /\ tm.mday = 31
  /\ tm.jday = 366

====
